---------------------------- MODULE Spec2Model ----------------------------
(***************************************************************************)
(* CANIOT device-side protocol core (caniot-lib): identifier codec,        *)
(* targeting, attribute schema and resolver, attribute engine, request     *)
(* dispatcher and the cooperative device loop.                             *)
(*                                                                         *)
(* Integer representation.  TLC integers are 32-bit signed, so a uint32_t  *)
(* of the program is represented by the integer congruent to it modulo     *)
(* 2^32 that lies in -2^31 .. 2^31-1 (its two's-complement reading).       *)
(* Addition, subtraction and multiplication are then the plain ones as     *)
(* long as no intermediate result leaves that range (TLC stops with an     *)
(* overflow error otherwise), and an unsigned comparison is U32Ge.         *)
(***************************************************************************)
EXTENDS Integers, Sequences, FiniteSets, TLC

VARIABLES
    codec,          \* last application of a frame-codec / targeting function
    resolved,       \* last application of attr_resolve
    build,          \* compile-time options of the device build
    api,            \* which application callbacks are registered
    identification, \* read-only identification memory
    system,         \* struct caniot_device_system
    config,         \* struct caniot_device_config (RAM copy)
    flags,          \* dev->flags
    startup,        \* startup_attrs list and _startup_attrs_cursor
    clock,          \* the driver's time base (get_time / set_time)
    steps,          \* number of caniot_device_process invocations so far
    obs             \* what the last operation did (inputs, frames, calls)

devVars == <<build, api, identification, system, config, flags, startup,
             clock, steps, obs>>

pureVars == <<codec, resolved>>

-----------------------------------------------------------------------------
(* Bit helpers (C shifts and masks on non-negative values).                *)

Pow2(n) == 2 ^ n

Bits(x, pos, width) == (x \div Pow2(pos)) % Pow2(width)

MIN(a, b) == IF a < b THEN a ELSE b

(* F applied to the value of v: LET w == v IN F(w), v evaluated once *)
Bind(v, F(_)) == CHOOSE r \in {F(w) : w \in {v}} : TRUE

-----------------------------------------------------------------------------
(* Protocol enumerations (caniot.h).                                       *)

CANIOT_FRAME_TYPE_COMMAND == 0
CANIOT_FRAME_TYPE_TELEMETRY == 1
CANIOT_FRAME_TYPE_WRITE_ATTRIBUTE == 2
CANIOT_FRAME_TYPE_READ_ATTRIBUTE == 3

CANIOT_RESPONSE == 0
CANIOT_QUERY == 1

CANIOT_ENDPOINT_APP == 0
CANIOT_ENDPOINT_1 == 1
CANIOT_ENDPOINT_2 == 2
CANIOT_ENDPOINT_BOARD_CONTROL == 3

CANIOT_CLASS_BROADCAST == 7
CANIOT_SUBID_BROADCAST == 7

FrameTypes == 0 .. 3
FrameDirs == 0 .. 1
Classes == 0 .. 7
SubIds == 0 .. 7
Endpoints == 0 .. 3

CanIds == 0 .. 2047
Dids == 0 .. 63

(* did = (class << 3) | sub-id                                             *)
CANIOT_DID(cls, sid) == (cls % 8) * 8 + (sid % 8)
CANIOT_DID_CLS(did) == Bits(did, 3, 3)
CANIOT_DID_SID(did) == Bits(did, 0, 3)

IdFields == [type : FrameTypes, query : FrameDirs, cls : Classes,
             sid : SubIds, endpoint : Endpoints]

(* a zero-initialised caniot_id_t *)
NoId == [type |-> 0, query |-> 0, cls |-> 0, sid |-> 0, endpoint |-> 0]

-----------------------------------------------------------------------------
(* Frame codec.                                                            *)

(* bit 0..1 type, bit 2 query, bits 3..5 class, bits 6..8 sub-id,          *)
(* bits 9..10 endpoint                                                     *)
CANIOT_ID(t, q, c, d, e) == t + q * 4 + c * 8 + d * 64 + e * 512
CANIOT_ID_GET_TYPE(canid) == Bits(canid, 0, 2)
CANIOT_ID_GET_QUERY(canid) == Bits(canid, 2, 1)
CANIOT_ID_GET_CLASS(canid) == Bits(canid, 3, 3)
CANIOT_ID_GET_SUBID(canid) == Bits(canid, 6, 3)
CANIOT_ID_GET_ENDPOINT(canid) == Bits(canid, 9, 2)

M_id_to_canid_swapped(id) ==
    CANIOT_ID(id.type, id.query, id.sid, id.cls, id.endpoint)

caniot_id_to_canid(id) ==
    CANIOT_ID(id.type, id.query, id.cls, id.sid, id.endpoint)

caniot_canid_to_id(canid) ==
    [type     |-> CANIOT_ID_GET_TYPE(canid),
     query    |-> CANIOT_ID_GET_QUERY(canid),
     cls      |-> CANIOT_ID_GET_CLASS(canid),
     sid      |-> CANIOT_ID_GET_SUBID(canid),
     endpoint |-> CANIOT_ID_GET_ENDPOINT(canid)]

caniot_is_error_frame(id) ==
    id.query = CANIOT_RESPONSE /\
    (id.type = CANIOT_FRAME_TYPE_COMMAND \/
     id.type = CANIOT_FRAME_TYPE_WRITE_ATTRIBUTE)

is_telemetry_response(id) ==
    id.query = CANIOT_RESPONSE /\ id.type = CANIOT_FRAME_TYPE_TELEMETRY

caniot_resp_error_for(query) ==
    IF query = CANIOT_FRAME_TYPE_WRITE_ATTRIBUTE \/
       query = CANIOT_FRAME_TYPE_READ_ATTRIBUTE
    THEN CANIOT_FRAME_TYPE_WRITE_ATTRIBUTE
    ELSE CANIOT_FRAME_TYPE_COMMAND

-----------------------------------------------------------------------------
(* Identity and filter.                                                    *)

M_is_target_any_dir(did, id) ==
    ((id.cls = CANIOT_DID_CLS(did)) /\ (id.sid = CANIOT_DID_SID(did))) \/
    ((id.cls = CANIOT_CLASS_BROADCAST) /\ (id.sid = CANIOT_SUBID_BROADCAST))

caniot_device_is_target(did, id) ==
    (id.query = CANIOT_QUERY) /\
    (((id.cls = CANIOT_DID_CLS(did)) /\ (id.sid = CANIOT_DID_SID(did))) \/
     ((id.cls = CANIOT_CLASS_BROADCAST) /\ (id.sid = CANIOT_SUBID_BROADCAST)))

caniot_is_broadcast(did) ==
    CANIOT_DID_CLS(did) = CANIOT_CLASS_BROADCAST /\
    CANIOT_DID_SID(did) = CANIOT_SUBID_BROADCAST

-----------------------------------------------------------------------------
(* CAN acceptance filters and the targeting of raw CAN frames.             *)

(* a & b on 16-bit operands *)
RECURSIVE BitAndFrom(_, _, _)
BitAndFrom(a, b, i) ==
    IF i > 15
    THEN 0
    ELSE Bits(a, i, 1) * Bits(b, i, 1) * Pow2(i) + BitAndFrom(a, b, i + 1)

BitAnd(a, b) == BitAndFrom(a, b, 0)

(* 0b00111111100: query, class and sub-id *)
caniot_device_get_mask == 508

(* the filter without the query bit *)
M_caniot_device_get_filter_no_query(did) ==
    caniot_id_to_canid([NoId EXCEPT !.sid = CANIOT_DID_SID(did),
                                    !.cls = CANIOT_DID_CLS(did)])

caniot_device_get_filter(did) ==
    caniot_id_to_canid([NoId EXCEPT !.query = CANIOT_QUERY,
                                    !.sid = CANIOT_DID_SID(did),
                                    !.cls = CANIOT_DID_CLS(did)])

caniot_device_get_filter_broadcast ==
    caniot_id_to_canid([NoId EXCEPT !.query = CANIOT_QUERY,
                                    !.sid = CANIOT_SUBID_BROADCAST,
                                    !.cls = CANIOT_CLASS_BROADCAST])

caniot_device_get_filter_by_cls(cls) ==
    caniot_id_to_canid([NoId EXCEPT !.query = CANIOT_QUERY,
                                    !.sid = 0,
                                    !.cls = CANIOT_DID_CLS(cls)])

verify_filter_or_broadcast(id, filter) ==
    LET std_id == BitAnd(id, 2047)
        mask == caniot_device_get_mask
        broad_filt == caniot_device_get_filter_broadcast
    IN IF BitAnd(std_id, mask) = filter
       THEN TRUE
       ELSE BitAnd(std_id, mask) = broad_filt

(* rtr is not looked at *)
caniot_device_targeted(did, ext, rtr, id) ==
    IF ext
    THEN FALSE
    ELSE verify_filter_or_broadcast(id, caniot_device_get_filter(did))

caniot_device_targeted_class(cls, ext, rtr, id) ==
    IF ext
    THEN FALSE
    ELSE verify_filter_or_broadcast(id, caniot_device_get_filter_by_cls(cls))

-----------------------------------------------------------------------------
(* Error taxonomy (caniot.h): codes are CANIOT_ERROR_BASE + n, returned    *)
(* negated.                                                                *)

CANIOT_ERROR_BASE == 14848

CANIOT_EINVAL == CANIOT_ERROR_BASE + 0
CANIOT_EFRAME == CANIOT_ERROR_BASE + 1
CANIOT_EKEYSECTION == CANIOT_ERROR_BASE + 2
CANIOT_EKEYATTR == CANIOT_ERROR_BASE + 3
CANIOT_EKEYPART == CANIOT_ERROR_BASE + 4
CANIOT_ECLSATTR == CANIOT_ERROR_BASE + 5
CANIOT_ENOATTR == CANIOT_ERROR_BASE + 6
CANIOT_EREADATTR == CANIOT_ERROR_BASE + 7
CANIOT_EWRITEATTR == CANIOT_ERROR_BASE + 8
CANIOT_EROATTR == CANIOT_ERROR_BASE + 9
CANIOT_EHANDLERC == CANIOT_ERROR_BASE + 10
CANIOT_EHANDLERT == CANIOT_ERROR_BASE + 11
CANIOT_EUNEXPECTED == CANIOT_ERROR_BASE + 12
CANIOT_EAGAIN == CANIOT_ERROR_BASE + 13
CANIOT_ENOTSUP == CANIOT_ERROR_BASE + 14
CANIOT_ENIMPL == CANIOT_ERROR_BASE + 15

-----------------------------------------------------------------------------
(* Attribute schema.                                                       *)

(* enum section_option *)
READONLY == 1
VOLATILE == 2
PERSISTENT == 4

(* enum attr_option *)
ATTR_OPTION_CLASS_POS == 2
ATTR_OPTION_CLASS_MSK == 7
HIDDEN == 0
READABLE == 1
WRITABLE == 2
ATTR_CLASS0 == 0
ATTR_CLASS1 == 4
ATTR_CLASS_ALL == 32

HasBit(opt, flag) == (opt \div flag) % 2 = 1

ATTR_IDENTIFICATION == 0
ATTR_SYSTEM == 1
ATTR_CONFIG == 2

Keys == 0 .. 65535

ATTR_KEY_SECTION_GET(key) == Bits(key, 12, 4)
ATTR_KEY_ATTR_GET(key) == Bits(key, 4, 8)
ATTR_KEY_PART_GET(key) == Bits(key, 0, 4)
(* a part is 4 bytes *)
ATTR_KEY_DATA_BYTE_OFFSET(key) == ATTR_KEY_PART_GET(key) * 4
ATTR_KEY(section, attr, part) == section * 4096 + attr * 16 + part

(* Struct layouts: <<member, offsetof, sizeof>>.  Members wider than four  *)
(* bytes are arrays read in 4-byte parts.                                  *)
caniot_device_id_layout ==
    << <<"did", 0, 1>>, <<"version", 2, 2>>, <<"name", 4, 32>>,
       <<"magic_number", 36, 4>>, <<"features", 40, 16>> >>

caniot_device_system_layout ==
    << <<"uptime_synced", 0, 4>>, <<"time", 4, 4>>, <<"uptime", 8, 4>>,
       <<"start_time", 12, 4>>, <<"last_telemetry", 16, 4>>,
       <<"_last_telemetry_ms", 20, 4>>,
       <<"received.total", 24, 4>>, <<"received.read_attribute", 28, 4>>,
       <<"received.write_attribute", 32, 4>>, <<"received.command", 36, 4>>,
       <<"received.request_telemetry", 40, 4>>, <<"received.ignored", 44, 4>>,
       <<"sent.total", 48, 4>>, <<"sent.telemetry", 52, 4>>,
       <<"_unused4", 56, 4>>,
       <<"last_command_error", 60, 2>>, <<"last_telemetry_error", 62, 2>>,
       <<"_unused5", 64, 2>>, <<"battery", 66, 1>> >>

(* telemetry.delay and telemetry.delay_min are the members of one union    *)
caniot_device_config_layout ==
    << <<"telemetry.period", 0, 4>>, <<"telemetry.delay", 4, 2>>,
       <<"telemetry.delay_min", 4, 2>>, <<"telemetry.delay_max", 6, 2>>,
       <<"flags", 8, 1>>, <<"timezone", 12, 4>>, <<"location", 16, 4>>,
       <<"cls0_gpio.pulse_durations", 20, 16>>,
       <<"cls0_gpio.outputs_default", 36, 4>>,
       <<"cls0_gpio.telemetry_on_change", 40, 4>>,
       <<"cls1_gpio.pulse_durations", 44, 80>>,
       <<"cls1_gpio.directions", 124, 4>>,
       <<"cls1_gpio.outputs_default", 128, 4>>,
       <<"cls1_gpio.telemetry_on_change", 132, 4>> >>

Member(layout, name) ==
    layout[CHOOSE i \in 1 .. Len(layout) : layout[i][1] = name]

(* ATTRIBUTE_HELPER(s, opt, _name, param) *)
ATTRIBUTE_HELPER(layout, opt, param) ==
    [offset |-> Member(layout, param)[2],
     size   |-> Member(layout, param)[3],
     option |-> opt]

(* ATTRIBUTE_HELPER for an array element param[i] of 4 bytes *)
ATTRIBUTE_ELEM(layout, opt, param, i) ==
    [offset |-> Member(layout, param)[2] + 4 * i,
     size   |-> 4,
     option |-> opt]

ATTRIBUTE(layout, rw, param) ==
    ATTRIBUTE_HELPER(layout, rw + ATTR_CLASS_ALL, param)

CLASS_ATTR(layout, rw, cls, param) == ATTRIBUTE_HELPER(layout, rw + cls, param)

CLASS_ELEM(layout, rw, cls, param, i) ==
    ATTRIBUTE_ELEM(layout, rw + cls, param, i)

(* an index of a designated-initializer array that no entry names *)
ATTR_GAP == [offset |-> 0, size |-> 0, option |-> 0]

(* The tables are 1-based here: entry [i] of the source is element i + 1.  *)
(* CONFIG_CANIOT_BUILD_INFOS is not set: [0x4] and [0x5] are gaps.         *)
identification_attr ==
    << ATTRIBUTE(caniot_device_id_layout, READABLE, "did"),
       ATTRIBUTE(caniot_device_id_layout, READABLE, "version"),
       ATTRIBUTE(caniot_device_id_layout, READABLE, "name"),
       ATTRIBUTE(caniot_device_id_layout, READABLE, "magic_number"),
       ATTR_GAP,
       ATTR_GAP,
       ATTRIBUTE(caniot_device_id_layout, READABLE, "features") >>

system_attr ==
    LET S == caniot_device_system_layout
    IN << ATTRIBUTE(S, READABLE, "uptime_synced"),                \* 0x0
          ATTRIBUTE(S, READABLE + WRITABLE, "time"),              \* 0x1
          ATTRIBUTE(S, READABLE, "uptime"),                       \* 0x2
          ATTRIBUTE(S, READABLE, "start_time"),                   \* 0x3
          ATTRIBUTE(S, READABLE, "last_telemetry"),               \* 0x4
          ATTRIBUTE(S, READABLE, "received.total"),               \* 0x5
          ATTRIBUTE(S, READABLE, "received.read_attribute"),      \* 0x6
          ATTRIBUTE(S, READABLE, "received.write_attribute"),     \* 0x7
          ATTRIBUTE(S, READABLE, "received.command"),             \* 0x8
          ATTRIBUTE(S, READABLE, "received.request_telemetry"),   \* 0x9
          ATTRIBUTE(S, HIDDEN, "received.ignored"),               \* 0xA
          ATTRIBUTE(S, READABLE, "_last_telemetry_ms"),           \* 0xB
          ATTRIBUTE(S, READABLE, "sent.total"),                   \* 0xC
          ATTRIBUTE(S, READABLE, "sent.telemetry"),               \* 0xD
          ATTRIBUTE(S, HIDDEN, "_unused4"),                       \* 0xE
          ATTRIBUTE(S, READABLE, "last_command_error"),           \* 0xF
          ATTRIBUTE(S, READABLE, "last_telemetry_error"),         \* 0x10
          ATTRIBUTE(S, HIDDEN, "_unused5"),                       \* 0x11
          ATTRIBUTE(S, READABLE, "battery") >>                    \* 0x12

config_attr ==
    LET C == caniot_device_config_layout
        RW == READABLE + WRITABLE
    IN << ATTRIBUTE(C, RW, "telemetry.period"),                   \* 0x0
          ATTRIBUTE(C, RW, "telemetry.delay"),                    \* 0x1
          ATTRIBUTE(C, RW, "telemetry.delay_min"),                \* 0x2
          ATTRIBUTE(C, RW, "telemetry.delay_max"),                \* 0x3
          ATTRIBUTE(C, RW, "flags"),                              \* 0x4
          ATTRIBUTE(C, RW, "timezone"),                           \* 0x5
          ATTRIBUTE(C, RW, "location") >>                         \* 0x6
       \o [i \in 1 .. 4 |->                                       \* 0x7..0xA
             CLASS_ELEM(C, RW, ATTR_CLASS0, "cls0_gpio.pulse_durations", i - 1)]
       \o << CLASS_ATTR(C, RW, ATTR_CLASS0, "cls0_gpio.outputs_default"),
             CLASS_ATTR(C, RW, ATTR_CLASS0, "cls0_gpio.telemetry_on_change") >>
       \o [i \in 1 .. 20 |->                                      \* 0xD..0x20
             CLASS_ELEM(C, RW, ATTR_CLASS1, "cls1_gpio.pulse_durations", i - 1)]
       \o << CLASS_ATTR(C, RW, ATTR_CLASS1, "cls1_gpio.directions"),
             CLASS_ATTR(C, RW, ATTR_CLASS1, "cls1_gpio.outputs_default"),
             CLASS_ATTR(C, RW, ATTR_CLASS1, "cls1_gpio.telemetry_on_change") >>

attr_sections ==
    << [option |-> READONLY, array |-> identification_attr],
       [option |-> VOLATILE, array |-> system_attr],
       [option |-> PERSISTENT, array |-> config_attr] >>

-----------------------------------------------------------------------------
(* Attribute resolver.  A missing section / attribute is NULL.             *)

NULL == [null |-> TRUE]

attr_get_section(key) ==
    LET index == ATTR_KEY_SECTION_GET(key)
    IN IF index < Len(attr_sections) THEN attr_sections[index + 1] ELSE NULL

attr_get(key, section) ==
    LET index == ATTR_KEY_ATTR_GET(key)
    IN IF index < Len(section.array) THEN section.array[index + 1] ELSE NULL

(* READONLY sections strip WRITABLE *)
attr_option_adjust(attr_opt, sec_opt) ==
    IF HasBit(sec_opt, READONLY) /\ HasBit(attr_opt, WRITABLE)
    THEN attr_opt - WRITABLE
    ELSE attr_opt

NoRef == [section |-> 0, size |-> 0, offset |-> 0, option |-> 0,
          section_option |-> 0]

(* the part check before the attribute check: a plausible slip *)
M_attr_resolve_part_first(key) ==
    LET section == attr_get_section(key)
        attr == IF section = NULL THEN NULL ELSE attr_get(key, section)
    IN IF section = NULL
       THEN [ret |-> -CANIOT_EKEYSECTION, ref |-> NoRef]
       ELSE IF ATTR_KEY_PART_GET(key) >= 8
       THEN [ret |-> -CANIOT_EKEYPART, ref |-> NoRef]
       ELSE IF attr = NULL
       THEN [ret |-> -CANIOT_EKEYATTR, ref |-> NoRef]
       ELSE IF ATTR_KEY_DATA_BYTE_OFFSET(key) >= attr.size
       THEN [ret |-> -CANIOT_EKEYPART, ref |-> NoRef]
       ELSE [ret |-> 0,
             ref |-> [section |-> ATTR_KEY_SECTION_GET(key),
                      size |-> MIN(attr.size, 4),
                      offset |-> ATTR_KEY_DATA_BYTE_OFFSET(key) + attr.offset,
                      option |-> attr_option_adjust(attr.option, section.option),
                      section_option |-> section.option]]

attr_resolve(key) ==
    LET section == attr_get_section(key)
        attr == IF section = NULL THEN NULL ELSE attr_get(key, section)
    IN IF section = NULL
       THEN [ret |-> -CANIOT_EKEYSECTION, ref |-> NoRef]
       ELSE IF attr = NULL
       THEN [ret |-> -CANIOT_EKEYATTR, ref |-> NoRef]
       ELSE IF ATTR_KEY_DATA_BYTE_OFFSET(key) >= attr.size
       THEN [ret |-> -CANIOT_EKEYPART, ref |-> NoRef]
       ELSE [ret |-> 0,
             ref |-> [section |-> ATTR_KEY_SECTION_GET(key),
                      size |-> MIN(attr.size, 4),
                      offset |-> ATTR_KEY_DATA_BYTE_OFFSET(key) + attr.offset,
                      option |-> attr_option_adjust(attr.option, section.option),
                      section_option |-> section.option]]

(* attr_resolve from the size check on: the descriptor of the attribute   *)
(* attr found in section                                                   *)
M_attr_resolve_found_whole(attr, section, key) ==
    IF ATTR_KEY_DATA_BYTE_OFFSET(key) >= attr.size
    THEN [ret |-> -CANIOT_EKEYPART, ref |-> NoRef]
    ELSE [ret |-> 0,
          ref |-> [section |-> ATTR_KEY_SECTION_GET(key),
                   size |-> attr.size,
                   offset |-> ATTR_KEY_DATA_BYTE_OFFSET(key) + attr.offset,
                   option |-> attr_option_adjust(attr.option, section.option),
                   section_option |-> section.option]]

attr_resolve_found(attr, section, key) ==
    IF ATTR_KEY_DATA_BYTE_OFFSET(key) >= attr.size
    THEN [ret |-> -CANIOT_EKEYPART, ref |-> NoRef]
    ELSE [ret |-> 0,
          ref |-> [section |-> ATTR_KEY_SECTION_GET(key),
                   size |-> MIN(attr.size, 4),
                   offset |-> ATTR_KEY_DATA_BYTE_OFFSET(key) + attr.offset,
                   option |-> attr_option_adjust(attr.option, section.option),
                   section_option |-> section.option]]

-----------------------------------------------------------------------------
(* Applications of the pure functions, inputs drawn from their whole       *)
(* domains; a behaviour applies one function to one input.                 *)

CodecIdle ==
    [op |-> "none", did |-> 0, canid |-> 0, id |-> NoId, packed |-> 0,
     unpacked |-> NoId, target |-> FALSE, cls |-> 0, ext |-> FALSE,
     rtr |-> FALSE]

ResolveIdle == [op |-> "none", key |-> 0, ret |-> 0, ref |-> NoRef]

PureInit == codec = CodecIdle /\ resolved = ResolveIdle

(* caniot_id_to_canid(caniot_canid_to_id(x)) *)
CodecUnpack ==
    /\ codec.op = "none"
    /\ \E x \in CanIds :
          codec' = [CodecIdle EXCEPT
                       !.op = "unpack", !.canid = x,
                       !.id = caniot_canid_to_id(x),
                       !.unpacked = caniot_canid_to_id(x),
                       !.packed = caniot_id_to_canid(caniot_canid_to_id(x))]
    /\ UNCHANGED <<resolved, devVars>>

(* caniot_canid_to_id(caniot_id_to_canid(f)) *)
CodecPack ==
    /\ codec.op = "none"
    /\ \E f \in IdFields :
          codec' = [CodecIdle EXCEPT
                       !.op = "pack", !.id = f,
                       !.packed = caniot_id_to_canid(f),
                       !.canid = caniot_id_to_canid(f),
                       !.unpacked = caniot_canid_to_id(caniot_id_to_canid(f))]
    /\ UNCHANGED <<resolved, devVars>>

(* caniot_device_is_target(did, frame) on the frame of identifier y *)
CodecIsTarget ==
    /\ codec.op = "none"
    /\ \E did \in Dids, y \in CanIds :
          codec' = [CodecIdle EXCEPT
                       !.op = "is_target", !.did = did, !.canid = y,
                       !.id = caniot_canid_to_id(y),
                       !.target = caniot_device_is_target(
                                      did, caniot_canid_to_id(y))]
    /\ UNCHANGED <<resolved, devVars>>

ResolveKey ==
    /\ resolved.op = "none"
    /\ \E key \in Keys :
          resolved' = [op |-> "resolve", key |-> key,
                       ret |-> attr_resolve(key).ret,
                       ref |-> attr_resolve(key).ref]
    /\ UNCHANGED <<codec, devVars>>

(* the sizes a struct attribute can declare (uint8_t size), the parts a    *)
(* key can name, and member offsets                                        *)
AttrSizes == 1 .. 255
KeyParts == 0 .. 15
AttrOffsets == {0, 12, 200}

(* the descriptor of part p of an attribute of s bytes at offset off of    *)
(* the first section                                                       *)
ResolvePart ==
    /\ resolved.op = "none"
    /\ \E s \in AttrSizes, p \in KeyParts, off \in AttrOffsets :
          \E attr \in {[offset |-> off, size |-> s,
                        option |-> READABLE + WRITABLE]} :
          \E r \in {attr_resolve_found(attr, attr_sections[1],
                                       ATTR_KEY(0, 0, p))} :
             resolved' = [op |-> "part", key |-> ATTR_KEY(0, 0, p),
                          ret |-> r.ret, ref |-> r.ref, attr |-> attr]
    /\ UNCHANGED <<codec, devVars>>

PartNext == ResolvePart \/ ResolveKey

(* device ids and class arguments of the targeting checks: the device of   *)
(* class 0 and of class 1, another one, the broadcast id                   *)
TargetDids == {3, 10, 42, 63}
TargetClasses == {0, 1, 7, 8, 56}

(* caniot_device_targeted on a raw CAN frame *)
CodecTargeted ==
    /\ codec.op = "none"
    /\ \E did \in TargetDids, ext \in BOOLEAN, rtr \in BOOLEAN, y \in CanIds :
          codec' = [CodecIdle EXCEPT
                       !.op = "targeted", !.did = did, !.canid = y,
                       !.ext = ext, !.rtr = rtr,
                       !.id = caniot_canid_to_id(y),
                       !.target = caniot_device_targeted(did, ext, rtr, y)]
    /\ UNCHANGED <<resolved, devVars>>

(* caniot_device_targeted_class on a raw CAN frame *)
CodecTargetedClass ==
    /\ codec.op = "none"
    /\ \E cls \in TargetClasses, ext \in BOOLEAN, rtr \in BOOLEAN, y \in CanIds :
          codec' = [CodecIdle EXCEPT
                       !.op = "targeted_class", !.cls = cls, !.canid = y,
                       !.ext = ext, !.rtr = rtr,
                       !.id = caniot_canid_to_id(y),
                       !.target = caniot_device_targeted_class(
                                      cls, ext, rtr, y)]
    /\ UNCHANGED <<resolved, devVars>>

(* caniot_device_targeted on a standard data frame, for every device id *)
CodecTargetedStd ==
    /\ codec.op = "none"
    /\ \E did \in Dids, y \in CanIds :
          codec' = [CodecIdle EXCEPT
                       !.op = "targeted_std", !.did = did, !.canid = y,
                       !.id = caniot_canid_to_id(y),
                       !.target = caniot_device_targeted(did, FALSE, FALSE, y)]
    /\ UNCHANGED <<resolved, devVars>>

CodecNext == CodecUnpack \/ CodecPack \/ CodecIsTarget

FilterNext == CodecTargetedStd

TargetedNext == CodecTargeted \/ CodecTargetedClass

ResolveNext == ResolveKey

-----------------------------------------------------------------------------
(* Device memory.  A section's memory maps the offset of each struct       *)
(* member to the sequence of its 4-byte words (one word for members of at  *)
(* most four bytes); members of a union share their offset.  Little-endian *)
(* host: copying size < 4 bytes of a word copies its low bytes.            *)

MemberOffsets(layout) == {layout[i][2] : i \in 1 .. Len(layout)}

MemberWords(layout, off) ==
    LET m == layout[CHOOSE i \in 1 .. Len(layout) : layout[i][2] = off]
    IN (m[3] + 3) \div 4

ZeroMem(layout) ==
    [off \in MemberOffsets(layout) |->
        [w \in 1 .. MemberWords(layout, off) |-> 0]]

(* the member holding byte offset off *)
MemberAt(layout, off) ==
    layout[CHOOSE i \in 1 .. Len(layout) :
              layout[i][2] <= off /\ off < layout[i][2] + layout[i][3]]

Trunc(val, size) == IF size >= 4 THEN val ELSE val % Pow2(8 * size)

(* memcpy(&val, base + off, size) into a zeroed val *)
ReadMem(mem, layout, off, size) ==
    LET m == MemberAt(layout, off)
    IN Trunc(mem[m[2]][(off - m[2]) \div 4 + 1], size)

(* memcpy(base + off, &val, size) *)
WriteMem(mem, layout, off, size, val) ==
    LET m == MemberAt(layout, off)
    IN [mem EXCEPT ![m[2]][(off - m[2]) \div 4 + 1] = Trunc(val, size)]

Get(mem, layout, name) == mem[Member(layout, name)[2]][1]

Set(mem, layout, name, val) ==
    [mem EXCEPT ![Member(layout, name)[2]][1] = val]

SysGet(sys, name) == Get(sys, caniot_device_system_layout, name)
SysSet(sys, name, val) == Set(sys, caniot_device_system_layout, name, val)
SysAdd(sys, name, n) == SysSet(sys, name, SysGet(sys, name) + n)
CfgGet(cfg, name) == Get(cfg, caniot_device_config_layout, name)
CfgSet(cfg, name, val) == Set(cfg, caniot_device_config_layout, name, val)

(* config->flags bit-field *)
cfg_error_response(cfg) == Bits(CfgGet(cfg, "flags"), 0, 1)
cfg_telemetry_delay_rdm(cfg) == Bits(CfgGet(cfg, "flags"), 1, 1)
cfg_telemetry_endpoint(cfg) == Bits(CfgGet(cfg, "flags"), 2, 2)
cfg_telemetry_periodic_enabled(cfg) == Bits(CfgGet(cfg, "flags"), 4, 1)

ConfigFlags(err, rdm, ep, periodic) == err + 2 * rdm + 4 * ep + 16 * periodic

(* unsigned comparison of two uint32_t in their two's-complement reading *)
U32Ge(a, b) ==
    IF (a < 0) = (b < 0) THEN a >= b ELSE a < 0

-----------------------------------------------------------------------------
(* Frames: identifier, len and the 8-byte payload buffer.                  *)

ZeroBuf == [i \in 1 .. 8 |-> 0]

caniot_clear_frame == [id |-> NoId, len |-> 0, buf |-> ZeroBuf]

Byte(v, i) == (v \div Pow2(8 * i)) % 256

(* write_le16 / write_le32 at byte offset at of buf *)
write_le16(buf, at, v) ==
    [i \in 1 .. 8 |-> IF i - 1 >= at /\ i - 1 < at + 2
                      THEN Byte(v, i - 1 - at) ELSE buf[i]]

write_le32(buf, at, v) ==
    [i \in 1 .. 8 |-> IF i - 1 >= at /\ i - 1 < at + 4
                      THEN Byte(v, i - 1 - at) ELSE buf[i]]

read_le16(buf, at) == buf[at + 1] + 256 * buf[at + 2]

(* the two's-complement reading of the 32-bit word *)
read_le32(buf, at) ==
    buf[at + 1] + 256 * buf[at + 2] + 65536 * buf[at + 3] +
    16777216 * (IF buf[at + 4] >= 128 THEN buf[at + 4] - 256 ELSE buf[at + 4])

caniot_frame_get_did(frame) == CANIOT_DID(frame.id.cls, frame.id.sid)

-----------------------------------------------------------------------------
(* Attribute engine.  The operators below thread the device through one    *)
(* call: d holds the device (sys, cfg, fl, st, clk), the frame being built *)
(* (resp, built), the result (ret), the value and key of the attribute     *)
(* request (val, key), the callbacks invoked so far (calls) and the frames *)
(* handed to driver.send (sent).  in holds what the environment answers    *)
(* during the call.                                                        *)

read_identification_nodeid(ident) ==
    Get(ident, caniot_device_id_layout, "did")

caniot_device_get_id(ident) == read_identification_nodeid(ident)

(* config_dirty cleared whatever on_read returns *)
M_prepare_config_read_clears(d, in) ==
    IF d.fl.config_dirty /\ api.on_read
    THEN LET r == in.on_read[MIN(d.nread + 1, Len(in.on_read))]
         IN [d EXCEPT !.nread = @ + 1,
                      !.calls = Append(@, "on_read"),
                      !.read_ok = @ \/ r = 0,
                      !.cfg = IF r = 0 THEN in.newcfg ELSE @,
                      !.fl.config_dirty = FALSE,
                      !.ret = r]
    ELSE [d EXCEPT !.ret = 0]

(* on_read loads the configuration in.newcfg when it succeeds; d.read_ok   *)
(* tells whether a call of on_read has returned 0                          *)
prepare_config_read(d, in) ==
    IF d.fl.config_dirty /\ api.on_read
    THEN LET r == in.on_read[MIN(d.nread + 1, Len(in.on_read))]
         IN [d EXCEPT !.nread = @ + 1,
                      !.calls = Append(@, "on_read"),
                      !.read_ok = @ \/ r = 0,
                      !.cfg = IF r = 0 THEN in.newcfg ELSE @,
                      !.fl.config_dirty = IF r = 0 THEN FALSE ELSE @,
                      !.ret = r]
    ELSE [d EXCEPT !.ret = 0]

(* on_write may move the time base by in.on_write.shift seconds *)
config_written(d, in) ==
    IF api.on_write
    THEN LET prev == d.clk
             new == [d.clk EXCEPT !.sec = @ + in.on_write.shift]
             diff_sec == new.sec - prev.sec
             diff_msec == diff_sec * 1000 + new.msec - prev.msec
         IN [d EXCEPT
                !.calls = Append(@, "on_write"),
                !.clk = new,
                !.sys = SysAdd(SysAdd(@, "start_time", diff_sec),
                               "last_telemetry", diff_msec),
                !.ret = in.on_write.ret]
    ELSE [d EXCEPT !.ret = 0]

read_config_attr(d, ref, in) ==
    Bind(prepare_config_read(d, in), LAMBDA d1 :
        IF d1.ret = 0
        THEN [d1 EXCEPT !.val = ReadMem(d1.cfg, caniot_device_config_layout,
                                        ref.offset, ref.size)]
        ELSE d1)

(* the callback invoked, the memory left as it was *)
M_write_config_attr_no_store(d, ref, in) == config_written(d, in)

write_config_attr(d, ref, in) ==
    config_written(
        [d EXCEPT !.cfg = WriteMem(@, caniot_device_config_layout,
                                   ref.offset, ref.size, d.val)], in)

device_class_attr_exists(ref) ==
    IF HasBit(ref.option, ATTR_CLASS_ALL)
    THEN TRUE
    ELSE Bits(ref.option, ATTR_OPTION_CLASS_POS, 3) =
         CANIOT_DID_CLS(read_identification_nodeid(identification))

attribute_read(d, ref, in) ==
    IF ~device_class_attr_exists(ref)
    THEN [d EXCEPT !.ret = -CANIOT_ECLSATTR]
    ELSE CASE ref.section = ATTR_IDENTIFICATION ->
                [d EXCEPT !.ret = 0,
                          !.val = ReadMem(identification,
                                          caniot_device_id_layout,
                                          ref.offset, ref.size)]
           [] ref.section = ATTR_SYSTEM ->
                [d EXCEPT !.ret = 0,
                          !.val = ReadMem(d.sys, caniot_device_system_layout,
                                          ref.offset, ref.size)]
           [] ref.section = ATTR_CONFIG -> read_config_attr(d, ref, in)
           [] OTHER -> [d EXCEPT !.ret = -CANIOT_EREADATTR]

(* key 0x1010 (system.time): set_time, then shift the time stamps *)
write_system_attr(d, ref, in) ==
    IF d.key = 4112
    THEN LET prev == d.clk
             epoch_s == d.val
             diff_s == epoch_s - prev.sec
             s1 == SysAdd(d.sys, "_last_telemetry_ms",
                          diff_s * 1000 - prev.msec)
             s2 == SysAdd(s1, "last_telemetry", diff_s)
             s3 == SysAdd(s2, "start_time", diff_s)
             s4 == SysSet(s3, "time", epoch_s)
             s5 == SysSet(s4, "uptime_synced",
                          epoch_s - SysGet(s4, "start_time"))
         IN [d EXCEPT !.calls = Append(@, "set_time"),
                      !.clk = [sec |-> epoch_s, msec |-> in.set_msec],
                      !.sys = s5,
                      !.ret = 0]
    ELSE [d EXCEPT !.sys = WriteMem(@, caniot_device_system_layout,
                                    ref.offset, ref.size, d.val),
                   !.ret = 0]

(* the write dispatched without the WRITABLE check *)
M_attribute_write_unchecked(d, ref, in) ==
    CASE ref.section = ATTR_SYSTEM -> write_system_attr(d, ref, in)
      [] ref.section = ATTR_CONFIG -> write_config_attr(d, ref, in)
      [] OTHER -> [d EXCEPT !.ret = -CANIOT_EWRITEATTR]

attribute_write(d, ref, in) ==
    IF ~HasBit(ref.option, WRITABLE)
    THEN [d EXCEPT !.ret = -CANIOT_EROATTR]
    ELSE CASE ref.section = ATTR_SYSTEM -> write_system_attr(d, ref, in)
           [] ref.section = ATTR_CONFIG -> write_config_attr(d, ref, in)
           [] OTHER -> [d EXCEPT !.ret = -CANIOT_EWRITEATTR]

-----------------------------------------------------------------------------
(* Request dispatcher.                                                     *)

(* class and sub-id exchanged in the identifier *)
M_prepare_response_swapped(d, resp_type, endpoint) ==
    LET did == read_identification_nodeid(identification)
    IN [d EXCEPT
           !.built = TRUE,
           !.resp = [caniot_clear_frame EXCEPT
                        !.id = [type     |-> resp_type,
                                query    |-> CANIOT_RESPONSE,
                                cls      |-> CANIOT_DID_SID(did),
                                sid      |-> CANIOT_DID_CLS(did),
                                endpoint |-> endpoint]]]

prepare_response(d, resp_type, endpoint) ==
    LET did == read_identification_nodeid(identification)
    IN [d EXCEPT
           !.built = TRUE,
           !.resp = [caniot_clear_frame EXCEPT
                        !.id = [type     |-> resp_type,
                                query    |-> CANIOT_RESPONSE,
                                cls      |-> CANIOT_DID_CLS(did),
                                sid      |-> CANIOT_DID_SID(did),
                                endpoint |-> endpoint]]]

(* an error type that is not the error frame type of the request *)
M_resp_wrap_error_same_type(d, req, error_code, has_arg, error_arg) ==
    LET d1 == prepare_response(d, req.id.type, req.id.endpoint)
    IN [d1 EXCEPT !.resp.buf = write_le32(@, 0, error_code),
                  !.resp.len = 4]

(* has_arg: p_error_arg != NULL *)
resp_wrap_error(d, req, error_code, has_arg, error_arg) ==
    LET d1 == prepare_response(d, caniot_resp_error_for(req.id.type),
                               req.id.endpoint)
        b1 == write_le32(d1.resp.buf, 0, error_code)
    IN IF has_arg
       THEN [d1 EXCEPT !.resp.buf = write_le32(b1, 4, error_arg),
                       !.resp.len = 8]
       ELSE [d1 EXCEPT !.resp.buf = b1, !.resp.len = 4]

(* frames of at most 8 bytes never carry a BLC system command byte         *)
handle_command_req(d, req, in) ==
    IF api.command_handler
    THEN [d EXCEPT !.calls = Append(@, "command_handler"),
                   !.sys = SysSet(@, "last_command_error", in.cmd),
                   !.ret = in.cmd]
    ELSE [d EXCEPT !.ret = -CANIOT_EHANDLERC]

TelemetryBuf(len) == [i \in 1 .. 8 |-> IF i <= len THEN 160 + i ELSE 0]

build_telemetry_resp(d, ep, in) ==
    LET d1 == prepare_response(d, CANIOT_FRAME_TYPE_TELEMETRY, ep)
    IN IF ~api.telemetry_handler
       THEN [d1 EXCEPT !.ret = -CANIOT_EHANDLERT]
       ELSE [d1 EXCEPT
                !.calls = Append(@, "telemetry_handler"),
                !.resp.buf = TelemetryBuf(in.tlm.len),
                !.resp.len = in.tlm.len,
                !.sys = SysSet(IF in.tlm.ret = 0
                               THEN SysAdd(@, "sent.telemetry", 1) ELSE @,
                               "last_telemetry_error", in.tlm.ret),
                !.ret = in.tlm.ret]

(* the write and read-back of a resolved or custom attribute *)
AttrWriteStep(d, req, ref, custom_attr, in) ==
    IF req.len >= 6
    THEN LET d1 == [d EXCEPT !.val = read_le32(req.buf, 2)]
         IN IF ~custom_attr
            THEN attribute_write(d1, ref, in)
            ELSE [d1 EXCEPT !.calls = Append(@, "custom_attr.write"),
                            !.ret = in.cwrite]
    ELSE [d EXCEPT !.ret = -CANIOT_EFRAME]

AttrReadBackStep(d, ref, custom_attr, in) ==
    IF d.ret # 0
    THEN d
    ELSE IF ~custom_attr
         THEN attribute_read([d EXCEPT !.val = 0], ref, in)
         ELSE [d EXCEPT !.calls = Append(@, "custom_attr.read"),
                        !.val = in.cread.val,
                        !.ret = in.cread.ret]

(* the response carrying the value without the key *)
M_AttrRespStep_no_key(d, req) ==
    IF d.ret # 0
    THEN d
    ELSE LET d1 == prepare_response(d, CANIOT_FRAME_TYPE_READ_ATTRIBUTE,
                                    req.id.endpoint)
         IN [d1 EXCEPT !.resp.len = 6,
                       !.resp.buf = write_le32(@, 0, d.val)]

AttrRespStep(d, req) ==
    IF d.ret # 0
    THEN d
    ELSE LET d1 == prepare_response(d, CANIOT_FRAME_TYPE_READ_ATTRIBUTE,
                                    req.id.endpoint)
         IN [d1 EXCEPT !.resp.len = 6,
                       !.resp.buf = write_le32(write_le16(@, 0, d.key),
                                               2, d.val)]

(* delegation as soon as one of the two callbacks is registered *)
M_handle_req_attribute_either(d, req, do_write, in) ==
    IF req.len < 2
    THEN [d EXCEPT !.ret = -CANIOT_EFRAME]
    ELSE Bind(attr_resolve(read_le16(req.buf, 0)), LAMBDA r :
         Bind([d EXCEPT !.key = read_le16(req.buf, 0), !.ret = 0], LAMBDA d1 :
            IF r.ret # 0 /\ ~(api.custom_read \/ api.custom_write)
            THEN [d1 EXCEPT !.ret = r.ret]
            ELSE Bind(IF do_write
                      THEN AttrWriteStep(d1, req, r.ref, r.ret # 0, in)
                      ELSE d1, LAMBDA d2 :
                 Bind(AttrReadBackStep(d2, r.ref, r.ret # 0, in), LAMBDA d3 :
                      AttrRespStep(d3, req)))))

handle_req_attribute(d, req, do_write, in) ==
    IF req.len < 2
    THEN [d EXCEPT !.ret = -CANIOT_EFRAME]
    ELSE Bind(attr_resolve(read_le16(req.buf, 0)), LAMBDA r :
         Bind([d EXCEPT !.key = read_le16(req.buf, 0), !.ret = 0], LAMBDA d1 :
            IF r.ret # 0 /\ ~(api.custom_read /\ api.custom_write)
            THEN [d1 EXCEPT !.ret = r.ret]
            ELSE Bind(IF do_write
                      THEN AttrWriteStep(d1, req, r.ref, r.ret # 0, in)
                      ELSE d1, LAMBDA d2 :
                 Bind(AttrReadBackStep(d2, r.ref, r.ret # 0, in), LAMBDA d3 :
                      AttrRespStep(d3, req)))))

(* the switch on req->id.type *)
(* a write_attribute request counted as a read_attribute request *)
M_DispatchType_write_as_read(d, req, in) ==
    CASE req.id.type = CANIOT_FRAME_TYPE_COMMAND ->
            Bind(handle_command_req(
                     [d EXCEPT !.sys = SysAdd(@, "received.command", 1)],
                     req, in), LAMBDA d1 :
                IF d1.ret = 0
                THEN build_telemetry_resp(d1, req.id.endpoint, in)
                ELSE d1)
      [] req.id.type = CANIOT_FRAME_TYPE_TELEMETRY ->
            build_telemetry_resp(
                [d EXCEPT !.sys = SysAdd(@, "received.request_telemetry", 1)],
                req.id.endpoint, in)
      [] req.id.type = CANIOT_FRAME_TYPE_WRITE_ATTRIBUTE ->
            handle_req_attribute(
                [d EXCEPT !.sys = SysAdd(@, "received.read_attribute", 1)],
                req, TRUE, in)
      [] OTHER ->
            handle_req_attribute(
                [d EXCEPT !.sys = SysAdd(@, "received.read_attribute", 1)],
                req, FALSE, in)

(* the uint32_t counters are kept as 32-bit two's-complement values: -1 is *)
(* 2^32 - 1 and the increment of -1 gives 0, as ++ does in the code        *)
DispatchType(d, req, in) ==
    CASE req.id.type = CANIOT_FRAME_TYPE_COMMAND ->
            Bind(handle_command_req(
                     [d EXCEPT !.sys = SysAdd(@, "received.command", 1)],
                     req, in), LAMBDA d1 :
                IF d1.ret = 0
                THEN build_telemetry_resp(d1, req.id.endpoint, in)
                ELSE d1)
      [] req.id.type = CANIOT_FRAME_TYPE_TELEMETRY ->
            build_telemetry_resp(
                [d EXCEPT !.sys = SysAdd(@, "received.request_telemetry", 1)],
                req.id.endpoint, in)
      [] req.id.type = CANIOT_FRAME_TYPE_WRITE_ATTRIBUTE ->
            handle_req_attribute(
                [d EXCEPT !.sys = SysAdd(@, "received.write_attribute", 1)],
                req, TRUE, in)
      [] OTHER ->
            handle_req_attribute(
                [d EXCEPT !.sys = SysAdd(@, "received.read_attribute", 1)],
                req, FALSE, in)

IsAttributeType(type) ==
    type = CANIOT_FRAME_TYPE_WRITE_ATTRIBUTE \/
    type = CANIOT_FRAME_TYPE_READ_ATTRIBUTE

(* the request handed over without the error argument *)
M_handle_rx_frame_no_arg(d, req, in) ==
    IF req.id.query # CANIOT_QUERY
    THEN resp_wrap_error([d EXCEPT !.ret = -CANIOT_EINVAL], req,
                         -CANIOT_EINVAL, FALSE, 0)
    ELSE Bind(DispatchType(
                  [d EXCEPT !.sys = SysAdd(@, "received.total", 1)],
                  req, in), LAMBDA d1 :
            IF d1.ret # 0
            THEN resp_wrap_error(d1, req, d1.ret, FALSE, 0)
            ELSE d1)

caniot_device_handle_rx_frame(d, req, in) ==
    IF req.id.query # CANIOT_QUERY
    THEN resp_wrap_error([d EXCEPT !.ret = -CANIOT_EINVAL], req,
                         -CANIOT_EINVAL, FALSE, 0)
    ELSE Bind(DispatchType(
                  [d EXCEPT !.sys = SysAdd(@, "received.total", 1)],
                  req, in), LAMBDA d1 :
            IF d1.ret # 0
            THEN resp_wrap_error(d1, req, d1.ret,
                                 IsAttributeType(req.id.type) /\
                                 d1.ret # -CANIOT_EFRAME,
                                 d1.key)
            ELSE d1)

-----------------------------------------------------------------------------
(* BLC system commands.  A command frame for the board-control endpoint    *)
(* longer than 8 bytes carries a system command byte; sys_cmd is the       *)
(* struct caniot_blc_sys_command decoded from it.                          *)

(* the values of the inhibit field, by their enumerator *)
TspCommands ==
    {"CANIOT_TSP_CMD_NONE", "CANIOT_TSP_CMD_ON", "CANIOT_TSP_CMD_OFF",
     "CANIOT_TSP_CMD_PULSE"}

CANIOT_TS_CMD_NONE == 0
CANIOT_TS_CMD_ON == 1
CANIOT_TS_CMD_OFF == 2
CANIOT_TS_CMD_TOGGLE == 3

SysCommands ==
    [inhibit : TspCommands, config_reset : BOOLEAN, watchdog : 0 .. 3,
     reset : BOOLEAN, watchdog_reset : BOOLEAN, software_reset : BOOLEAN]

(* the calls of call_blc_sys_cmd_cb that handle_blc_sys_cmd makes, in      *)
(* order, as long as each of them returns 0                                *)
handle_blc_sys_cmd(sys_cmd) ==
    (CASE sys_cmd.inhibit = "CANIOT_TSP_CMD_ON" -> <<"INHIBIT_ON">>
       [] sys_cmd.inhibit = "CANIOT_TSP_CMD_OFF" -> <<"INHIBIT_OFF">>
       [] sys_cmd.inhibit = "CANIOT_TSP_CMD_PULSE" -> <<"INHIBIT_PULSE">>
       [] OTHER -> <<>>)
    \o (IF sys_cmd.config_reset THEN <<"CONFIG_RESET">> ELSE <<>>)
    \o (CASE sys_cmd.watchdog = CANIOT_TS_CMD_ON -> <<"WATCHDOG_ENABLE">>
          [] sys_cmd.watchdog = CANIOT_TS_CMD_OFF -> <<"WATCHDOG_DISABLE">>
          [] sys_cmd.watchdog = CANIOT_TS_CMD_TOGGLE -> <<"WATCHDOG_TOGGLE">>
          [] OTHER -> <<>>)
    \o (IF sys_cmd.reset THEN <<"RESET">> ELSE <<>>)
    \o (IF sys_cmd.watchdog_reset THEN <<"WATCHDOG_RESET">> ELSE <<>>)
    \o (IF sys_cmd.software_reset THEN <<"SOFT_RESET">> ELSE <<>>)

(* stack frames available to the recursion of call_blc_sys_cmd_cb *)
MaxDepth == 3

-----------------------------------------------------------------------------
(* Device loop.                                                            *)

CANIOT_TELEMETRY_DELAY_MIN_DEFAULT_MS == 0
CANIOT_TELEMETRY_DELAY_MAX_DEFAULT_MS == 100

BitSet(set, n) == Bits(set, n, 1) = 1

caniot_device_trigger_telemetry_ep(fl, ep) ==
    IF BitSet(fl.request_telemetry_ep, ep)
    THEN fl
    ELSE [fl EXCEPT !.request_telemetry_ep = @ + Pow2(ep)]

caniot_device_triggered_telemetry_ep(fl, ep) ==
    BitSet(fl.request_telemetry_ep, ep)

caniot_device_triggered_telemetry_any(fl) == fl.request_telemetry_ep # 0

telemetry_trig_clear_ep(fl, ep) ==
    IF BitSet(fl.request_telemetry_ep, ep)
    THEN [fl EXCEPT !.request_telemetry_ep = @ - Pow2(ep)]
    ELSE fl

(* the random part alone, delay_min forgotten *)
M_get_response_delay_no_min(d, random, in) ==
    IF random
    THEN Bind(prepare_config_read(d, in), LAMBDA d1 :
         LET delay_min == IF d1.ret = 0
                          THEN CfgGet(d1.cfg, "telemetry.delay_min")
                          ELSE CANIOT_TELEMETRY_DELAY_MIN_DEFAULT_MS
             delay_max == IF d1.ret = 0
                          THEN CfgGet(d1.cfg, "telemetry.delay_max")
                          ELSE CANIOT_TELEMETRY_DELAY_MAX_DEFAULT_MS
             amplitude == IF delay_max > delay_min
                          THEN delay_max - delay_min
                          ELSE CANIOT_TELEMETRY_DELAY_MAX_DEFAULT_MS
         IN [d1 EXCEPT !.delay = in.rdm % amplitude,
                       !.delay_cfg_ret = d1.ret])
    ELSE [d EXCEPT !.delay = 0]

(* the delay is left in d.delay *)
get_response_delay(d, random, in) ==
    IF random
    THEN Bind(prepare_config_read(d, in), LAMBDA d1 :
         LET delay_min == IF d1.ret = 0
                          THEN CfgGet(d1.cfg, "telemetry.delay_min")
                          ELSE CANIOT_TELEMETRY_DELAY_MIN_DEFAULT_MS
             delay_max == IF d1.ret = 0
                          THEN CfgGet(d1.cfg, "telemetry.delay_max")
                          ELSE CANIOT_TELEMETRY_DELAY_MAX_DEFAULT_MS
             amplitude == IF delay_max > delay_min
                          THEN delay_max - delay_min
                          ELSE CANIOT_TELEMETRY_DELAY_MAX_DEFAULT_MS
         IN [d1 EXCEPT !.delay = delay_min + (in.rdm % amplitude),
                       !.delay_cfg_ret = d1.ret])
    ELSE [d EXCEPT !.delay = 0]

(* (uint32_t)-1, read as a 32-bit pattern *)
UINT32_MAX == -1

(* the whole period returned while it is running, the elapsed time         *)
(* forgotten                                                               *)
M_time_until_process_period(d, in) ==
    IF build.startup /\ ~d.fl.startup_attrs_sent
    THEN [d EXCEPT !.remaining = 0]
    ELSE Bind(prepare_config_read(d, in), LAMBDA d1 :
         LET now_ms == d1.clk.sec * 1000 + d1.clk.msec
             ellapsed_ms == now_ms - SysGet(d1.sys, "_last_telemetry_ms")
             period == CfgGet(d1.cfg, "telemetry.period")
         IN [d1 EXCEPT !.remaining =
                IF d1.ret # 0 THEN 1000
                ELSE IF cfg_telemetry_periodic_enabled(d1.cfg) = 0
                THEN UINT32_MAX
                ELSE IF U32Ge(ellapsed_ms, period) THEN 0
                ELSE period])

(* the result is left in d.remaining *)
caniot_device_time_until_process(d, in) ==
    IF build.startup /\ ~d.fl.startup_attrs_sent
    THEN [d EXCEPT !.remaining = 0]
    ELSE Bind(prepare_config_read(d, in), LAMBDA d1 :
         LET now_ms == d1.clk.sec * 1000 + d1.clk.msec
             ellapsed_ms == now_ms - SysGet(d1.sys, "_last_telemetry_ms")
             period == CfgGet(d1.cfg, "telemetry.period")
         IN [d1 EXCEPT !.remaining =
                IF d1.ret # 0 THEN 1000
                ELSE IF cfg_telemetry_periodic_enabled(d1.cfg) = 0
                THEN UINT32_MAX
                ELSE IF U32Ge(ellapsed_ms, period) THEN 0
                ELSE period - ellapsed_ms])

(* lines 1347-1375: refresh, clock sample, periodic trigger *)
M_PeriodicStep_no_trigger(d, in) ==
    Bind(prepare_config_read(d, in), LAMBDA d1 :
    LET time == d1.clk.sec
        now_ms == time * 1000 + d1.clk.msec
    IN [d1 EXCEPT
           !.sys = SysSet(SysSet(@, "time", time), "uptime",
                          time - SysGet(@, "start_time")),
           !.now_ms = now_ms,
           !.chk = [enabled   |-> cfg_telemetry_periodic_enabled(d1.cfg) = 1,
                    period    |-> CfgGet(d1.cfg, "telemetry.period"),
                    ep        |-> cfg_telemetry_endpoint(d1.cfg),
                    last_ms   |-> SysGet(d1.sys, "_last_telemetry_ms"),
                    sample_ms |-> now_ms,
                    time      |-> time,
                    eps_after |-> d1.fl.request_telemetry_ep]])

PeriodicStep(d, in) ==
    Bind(prepare_config_read(d, in), LAMBDA d1 :
    LET time == d1.clk.sec
        msec == d1.clk.msec
        enabled == cfg_telemetry_periodic_enabled(d1.cfg) = 1
        now_ms == time * 1000 + msec
        ellapsed_ms == now_ms - SysGet(d1.sys, "_last_telemetry_ms")
        due == enabled /\
               U32Ge(ellapsed_ms, CfgGet(d1.cfg, "telemetry.period"))
    IN Bind(IF due
            THEN caniot_device_trigger_telemetry_ep(
                     d1.fl, cfg_telemetry_endpoint(d1.cfg))
            ELSE d1.fl, LAMBDA fl1 :
       [d1 EXCEPT
           !.sys = SysSet(SysSet(@, "time", time), "uptime",
                          time - SysGet(@, "start_time")),
           !.now_ms = IF enabled THEN now_ms ELSE 0,
           !.fl = fl1,
           !.chk = [enabled   |-> enabled,
                    period    |-> CfgGet(d1.cfg, "telemetry.period"),
                    ep        |-> cfg_telemetry_endpoint(d1.cfg),
                    last_ms   |-> SysGet(d1.sys, "_last_telemetry_ms"),
                    sample_ms |-> now_ms,
                    time      |-> time,
                    eps_after |-> fl1.request_telemetry_ep]]))

(* the frame taken as addressed to the device whatever it carries *)
M_RecvStep_no_filter(d, in) ==
    [d EXCEPT !.nrecv = @ + 1, !.ret = in.recv.ret]

(* lines 1377-1392: recv and the optional targeting filter; d.nrecv counts *)
(* the calls of driver.recv                                                *)
RecvStep(d, in) ==
    LET did == caniot_device_get_id(identification)
    IN IF build.filter /\ in.recv.ret = 0 /\
          ~caniot_device_is_target(did, in.recv.frame.id)
       THEN [d EXCEPT !.nrecv = @ + 1,
                      !.sys = SysAdd(@, "received.ignored", 1),
                      !.ret = -CANIOT_EUNEXPECTED]
       ELSE [d EXCEPT !.nrecv = @ + 1, !.ret = in.recv.ret]

StartupAt(st, i) == IF i >= 1 /\ i <= Len(st.attrs) THEN st.attrs[i] ELSE 0

caniot_build_query_read_attribute(frame, key) ==
    [frame EXCEPT !.id.type = CANIOT_FRAME_TYPE_READ_ATTRIBUTE,
                  !.id.query = CANIOT_QUERY,
                  !.len = 2,
                  !.buf = write_le16(@, 0, key)]

caniot_frame_set_did(frame, did) ==
    [frame EXCEPT !.id.cls = CANIOT_DID_CLS(did),
                  !.id.sid = CANIOT_DID_SID(did)]

IgnoredStartupErrors ==
    {-CANIOT_ECLSATTR, -CANIOT_EKEYSECTION, -CANIOT_EKEYATTR,
     -CANIOT_EKEYPART, -CANIOT_ENOATTR, -CANIOT_EREADATTR,
     -CANIOT_EROATTR, -CANIOT_EWRITEATTR}

(* lines 1404-1448 *)
(* the synthesised read handed to caniot_device_handle_rx_frame, which     *)
(* counts it as a received request                                         *)
M_StartupStep_counted(d, in) ==
    Bind(caniot_device_handle_rx_frame(
             d,
             caniot_build_query_read_attribute(
                 caniot_frame_set_did(caniot_clear_frame,
                                      caniot_device_get_id(identification)),
                 StartupAt(d.st, d.st.cursor)),
             in), LAMBDA d1 :
        IF d1.ret = 0 \/ d1.ret \in IgnoredStartupErrors
        THEN [d1 EXCEPT
                 !.ret = 0,
                 !.st.cursor = @ + 1,
                 !.fl.startup_attrs_sent =
                     IF StartupAt(d.st, d.st.cursor + 1) = 0 THEN TRUE ELSE @]
        ELSE d1)

StartupStep(d, in) ==
    Bind(handle_req_attribute(
             d,
             caniot_build_query_read_attribute(
                 caniot_frame_set_did(caniot_clear_frame,
                                      caniot_device_get_id(identification)),
                 StartupAt(d.st, d.st.cursor)),
             FALSE, in), LAMBDA d1 :
        IF d1.ret = 0 \/ d1.ret \in IgnoredStartupErrors
        THEN [d1 EXCEPT
                 !.ret = 0,
                 !.st.cursor = @ + 1,
                 !.fl.startup_attrs_sent =
                     IF StartupAt(d.st, d.st.cursor + 1) = 0 THEN TRUE ELSE @]
        ELSE d1)

(* the endpoint of lowest priority served first *)
M_HighestTriggeredEp_lowest(fl) ==
    CHOOSE ep \in Endpoints :
        /\ caniot_device_triggered_telemetry_ep(fl, ep)
        /\ \A e \in Endpoints :
              caniot_device_triggered_telemetry_ep(fl, e) => e >= ep

HighestTriggeredEp(fl) ==
    CHOOSE ep \in Endpoints :
        /\ caniot_device_triggered_telemetry_ep(fl, ep)
        /\ \A e \in Endpoints :
              caniot_device_triggered_telemetry_ep(fl, e) => e <= ep

(* lines 1394-1465: which work this invocation does; d.emit tells whether  *)
(* the invocation goes on to the response stage                            *)
WorkStep(d, in) ==
    IF d.ret = 0
    THEN Bind(caniot_device_handle_rx_frame(d, in.recv.frame, in), LAMBDA d1 :
            [d1 EXCEPT
                !.work = "rx", !.emit = TRUE,
                !.rx_ret = d1.ret, !.rx_resp = d1.resp,
                !.random = caniot_is_broadcast(
                               caniot_frame_get_did(in.recv.frame))])
    ELSE IF build.startup /\ d.ret = -CANIOT_EAGAIN /\
            ~d.fl.startup_attrs_sent /\ d.st.cursor # 0
    THEN [StartupStep(d, in) EXCEPT !.work = "startup", !.emit = TRUE]
    ELSE IF d.ret = -CANIOT_EAGAIN /\
            caniot_device_triggered_telemetry_any(d.fl)
    THEN [build_telemetry_resp(d, HighestTriggeredEp(d.fl), in)
             EXCEPT !.work = "telemetry", !.emit = TRUE]
    ELSE [d EXCEPT !.work = "none", !.emit = FALSE]

(* the gate left open whatever error_response holds *)
M_GateStep_open(d, in) ==
    IF d.emit /\ d.ret # 0
    THEN Bind(prepare_config_read(d, in), LAMBDA d1 :
            [d1 EXCEPT !.ret = d.ret, !.emit = TRUE])
    ELSE d

(* lines 1467-1474: error frames are sent only if error_response is set *)
GateStep(d, in) ==
    IF d.emit /\ d.ret # 0
    THEN Bind(prepare_config_read(d, in), LAMBDA d1 :
            [d1 EXCEPT !.ret = d.ret,
                       !.emit = cfg_error_response(d1.cfg) # 0])
    ELSE d

(* lines 1476-1495, a failed send tried a second time *)
M_SendStep_retry(d, in) ==
    IF ~d.emit
    THEN d
    ELSE Bind(get_response_delay(d, d.random, in), LAMBDA d1 :
         Bind([d1 EXCEPT
                  !.sent = IF in.send # 0
                           THEN @ \o << [frame |-> d1.resp, delay |-> d1.delay,
                                         ret |-> in.send],
                                        [frame |-> d1.resp, delay |-> d1.delay,
                                         ret |-> in.send] >>
                           ELSE Append(@, [frame |-> d1.resp,
                                           delay |-> d1.delay,
                                           ret |-> in.send]),
                  !.ret = in.send], LAMBDA d2 :
            IF in.send # 0
            THEN d2
            ELSE IF ~is_telemetry_response(d2.resp.id)
            THEN [d2 EXCEPT !.sys = SysAdd(@, "sent.total", 1)]
            ELSE [d2 EXCEPT
                     !.fl = telemetry_trig_clear_ep(@, d2.resp.id.endpoint),
                     !.sys = SysAdd(@, "sent.total", 1)]))

(* the trigger bit cleared whether or not send accepted the frame *)
M_SendStep_clear_on_fail(d, in) ==
    IF ~d.emit
    THEN d
    ELSE Bind(get_response_delay(d, d.random, in), LAMBDA d1 :
         Bind([d1 EXCEPT
                  !.sent = Append(@, [frame |-> d1.resp, delay |-> d1.delay,
                                      ret |-> in.send]),
                  !.ret = in.send], LAMBDA d2 :
            IF in.send # 0
            THEN IF is_telemetry_response(d2.resp.id)
                 THEN [d2 EXCEPT
                          !.fl = telemetry_trig_clear_ep(
                                     @, d2.resp.id.endpoint)]
                 ELSE d2
            ELSE IF ~is_telemetry_response(d2.resp.id)
            THEN [d2 EXCEPT !.sys = SysAdd(@, "sent.total", 1)]
            ELSE [d2 EXCEPT
                     !.fl = telemetry_trig_clear_ep(@, d2.resp.id.endpoint),
                     !.sys =
                        IF cfg_telemetry_periodic_enabled(d2.cfg) = 1 /\
                           d2.resp.id.endpoint = cfg_telemetry_endpoint(d2.cfg)
                        THEN SysSet(SysSet(SysAdd(@, "sent.total", 1),
                                           "_last_telemetry_ms", d2.now_ms),
                                    "last_telemetry", SysGet(@, "time"))
                        ELSE SysAdd(@, "sent.total", 1)]))

(* lines 1476-1495 *)
SendStep(d, in) ==
    IF ~d.emit
    THEN d
    ELSE Bind(get_response_delay(d, d.random, in), LAMBDA d1 :
         Bind([d1 EXCEPT
                  !.sent = Append(@, [frame |-> d1.resp, delay |-> d1.delay,
                                      ret |-> in.send]),
                  !.ret = in.send], LAMBDA d2 :
            IF in.send # 0
            THEN d2
            ELSE IF ~is_telemetry_response(d2.resp.id)
            THEN [d2 EXCEPT !.sys = SysAdd(@, "sent.total", 1)]
            ELSE [d2 EXCEPT
                     !.fl = telemetry_trig_clear_ep(@, d2.resp.id.endpoint),
                     !.sys =
                        IF cfg_telemetry_periodic_enabled(d2.cfg) = 1 /\
                           d2.resp.id.endpoint = cfg_telemetry_endpoint(d2.cfg)
                        THEN SysSet(SysSet(SysAdd(@, "sent.total", 1),
                                           "_last_telemetry_ms", d2.now_ms),
                                    "last_telemetry", SysGet(@, "time"))
                        ELSE SysAdd(@, "sent.total", 1)]))

-----------------------------------------------------------------------------
(* Construction.                                                           *)

MaxSteps == 2

IdentificationOf(did) ==
    [ZeroMem(caniot_device_id_layout) EXCEPT
        ![Member(caniot_device_id_layout, "did")[2]] = <<did>>,
        ![Member(caniot_device_id_layout, "version")[2]] = <<258>>,
        ![Member(caniot_device_id_layout, "name")[2]] =
            [w \in 1 .. 8 |-> 1000 + w],
        ![Member(caniot_device_id_layout, "magic_number")[2]] = <<-1412567295>>]

MkConfig(period, delay_min, delay_max, cfgflags) ==
    CfgSet(CfgSet(CfgSet(CfgSet(ZeroMem(caniot_device_config_layout),
        "telemetry.period", period),
        "telemetry.delay_min", delay_min),
        "telemetry.delay_max", delay_max),
        "flags", cfgflags)

NoChk == [enabled |-> FALSE, period |-> 0, ep |-> 0, last_ms |-> 0,
          sample_ms |-> 0, time |-> 0, eps_after |-> 0]

ObsIdle ==
    [op |-> "init", recv_ret |-> 0, req |-> caniot_clear_frame, rdm |-> 0,
     ret |-> 0, work |-> "none", rx_ret |-> 0, rx_resp |-> caniot_clear_frame,
     resp |-> caniot_clear_frame, built |-> FALSE, sent |-> <<>>,
     calls |-> <<>>, chk |-> NoChk, now_ms |-> 0, random |-> FALSE,
     delay_cfg_ret |-> 0, work_ret |-> 0, nrecv |-> 0, read_ok |-> FALSE]

(* caniot_app_init on a device whose application supplies bld, a, did,     *)
(* cfg, the start-up list attrs, with the driver clock at sec0             *)
caniot_app_init(bld, a, did, cfg, attrs, sec0) ==
    /\ build = bld
    /\ api = a
    /\ identification = IdentificationOf(did)
    /\ config = cfg
    /\ clock = [sec |-> sec0, msec |-> 0]
    /\ system = SysSet(ZeroMem(caniot_device_system_layout),
                       "start_time", sec0)
    /\ flags = [request_telemetry_ep |-> 0,
                config_dirty |-> TRUE,
                initialized |-> TRUE,
                startup_attrs_sent |->
                    ~(bld.startup /\ Len(attrs) > 0 /\ attrs[1] # 0)]
    /\ startup = [attrs |-> attrs,
                  cursor |-> IF bld.startup /\ Len(attrs) > 0 /\ attrs[1] # 0
                             THEN 1 ELSE 0]
    /\ steps = 0
    /\ obs = ObsIdle

-----------------------------------------------------------------------------
(* Requests.  A template names the addressee: the device itself ("own"),   *)
(* the broadcast address ("bcast") or another device ("other").            *)

MkFrame(did, t) ==
    [id  |-> [type     |-> t.type,
              query    |-> t.query,
              cls      |-> CASE t.to = "own" -> CANIOT_DID_CLS(did)
                             [] t.to = "bcast" -> CANIOT_CLASS_BROADCAST
                             [] OTHER -> CANIOT_DID_CLS(did),
              sid      |-> CASE t.to = "own" -> CANIOT_DID_SID(did)
                             [] t.to = "bcast" -> CANIOT_SUBID_BROADCAST
                             [] OTHER -> (CANIOT_DID_SID(did) + 1) % 7,
              endpoint |-> t.ep],
     len |-> t.len,
     buf |-> write_le32(write_le16(ZeroBuf, 0, t.key), 2, t.val)]

Tpl(to, type, query, ep, len, key, val) ==
    [to |-> to, type |-> type, query |-> query, ep |-> ep, len |-> len,
     key |-> key, val |-> val]

IsQueryOf(recv, types) ==
    recv.ret = 0 /\ recv.frame.id.type \in types

ProcessStart(clk) ==
    [sys |-> system, cfg |-> config, fl |-> flags, st |-> startup,
     clk |-> clk, ret |-> 0, resp |-> caniot_clear_frame, built |-> FALSE,
     val |-> 0, key |-> 0, calls |-> <<>>, nread |-> 0, sent |-> <<>>,
     delay |-> 0, delay_cfg_ret |-> 0, now_ms |-> 0, chk |-> NoChk,
     work |-> "none", emit |-> FALSE, random |-> FALSE, rx_ret |-> 0,
     rx_resp |-> caniot_clear_frame, remaining |-> 0, nrecv |-> 0,
     read_ok |-> FALSE]

(* what the environment answers during one invocation *)
Inputs(recv, on_read, newcfg, handlers, rdm, send) ==
    [recv |-> recv, on_read |-> on_read, newcfg |-> newcfg,
     cmd |-> handlers.cmd, tlm |-> handlers.tlm,
     on_write |-> handlers.on_write, cwrite |-> handlers.custom.cwrite,
     cread |-> handlers.custom.cread, set_msec |-> handlers.set_msec,
     rdm |-> rdm, send |-> send]

NoCustom == [cwrite |-> 0, cread |-> [ret |-> 0, val |-> 0]]

NoHandlers ==
    [cmd |-> 0, tlm |-> [ret |-> 0, len |-> 0],
     on_write |-> [ret |-> 0, shift |-> 0], custom |-> NoCustom,
     set_msec |-> 0]

(* the answers of the callbacks the request stage can reach from d, the    *)
(* device after recv                                                       *)
HandlerAnswers(A, d, recv) ==
    LET rx == d.ret = 0 /\ recv.frame.id.query = CANIOT_QUERY
        type == recv.frame.id.type
        telemetry == \/ rx /\ type \in {CANIOT_FRAME_TYPE_COMMAND,
                                         CANIOT_FRAME_TYPE_TELEMETRY}
                     \/ d.ret = -CANIOT_EAGAIN /\
                        caniot_device_triggered_telemetry_any(d.fl)
        write == rx /\ type = CANIOT_FRAME_TYPE_WRITE_ATTRIBUTE
    IN {[cmd |-> c, tlm |-> t, on_write |-> w, custom |-> u, set_msec |-> m] :
          c \in (IF rx /\ type = CANIOT_FRAME_TYPE_COMMAND /\
                    api.command_handler
                 THEN A.cmd ELSE {0}),
          t \in (IF telemetry /\ api.telemetry_handler
                 THEN A.tlm ELSE {NoHandlers.tlm}),
          w \in (IF write /\ api.on_write
                 THEN A.on_write ELSE {NoHandlers.on_write}),
          u \in (IF rx /\ IsAttributeType(type) /\
                    api.custom_read /\ api.custom_write
                 THEN A.custom ELSE {NoCustom}),
          m \in (IF write THEN A.set_msec ELSE {0})}

(* resp is an automatic variable of caniot_device_process that the         *)
(* start-up branch may leave unwritten: there it holds any content         *)
StackFrames(A, d) ==
    IF build.startup /\ d.ret = -CANIOT_EAGAIN /\ ~d.fl.startup_attrs_sent
    THEN A.garbage
    ELSE {caniot_clear_frame}

AdvanceClock(clk, ms) ==
    [sec |-> clk.sec + (clk.msec + ms) \div 1000,
     msec |-> (clk.msec + ms) % 1000]

(* One invocation of caniot_device_process, the environment answering from *)
(* the alphabet A: A.dt the time elapsed since the last operation, A.rx    *)
(* the frames recv may deliver, A.recv_err its failures, and the results   *)
(* of the callbacks and of send, A.steps the number of operations          *)
(* explored.                                                               *)
Process(A) ==
    /\ steps < A.steps
    /\ \E dt \in A.dt,
          recv \in {[ret |-> 0,
                     frame |-> MkFrame(caniot_device_get_id(identification), t)]
                       : t \in A.rx}
                   \cup {[ret |-> e, frame |-> caniot_clear_frame]
                           : e \in A.recv_err},
          on_read \in (IF flags.config_dirty /\ api.on_read
                       THEN A.on_read ELSE {<<0>>}),
          newcfg \in (IF flags.config_dirty /\ api.on_read
                      THEN A.newcfg ELSE {config}) :
       \E d2 \in {RecvStep(
                     PeriodicStep(
                         ProcessStart(AdvanceClock(clock, dt)),
                         Inputs(recv, on_read, newcfg, NoHandlers, 0, 0)),
                     Inputs(recv, on_read, newcfg, NoHandlers, 0, 0))} :
       \E h \in HandlerAnswers(A, d2, recv), garbage \in StackFrames(A, d2) :
       \E d4 \in {GateStep(
                     WorkStep([d2 EXCEPT !.resp = garbage],
                              Inputs(recv, on_read, newcfg, h, 0, 0)),
                     Inputs(recv, on_read, newcfg, h, 0, 0))} :
       \E send \in (IF d4.emit THEN A.send ELSE {0}),
          rdm \in (IF d4.emit /\ d4.random THEN A.rdm ELSE {0}) :
       \E d \in {SendStep(d4, Inputs(recv, on_read, newcfg, h, rdm, send))} :
          /\ system' = d.sys
          /\ config' = d.cfg
          /\ flags' = d.fl
          /\ startup' = d.st
          /\ clock' = d.clk
          /\ steps' = steps + 1
          /\ obs' = [op |-> "process", recv_ret |-> recv.ret,
                     req |-> recv.frame, rdm |-> rdm, ret |-> d.ret,
                     work |-> d.work, rx_ret |-> d.rx_ret,
                     rx_resp |-> d.rx_resp, resp |-> d.resp,
                     built |-> d.built, sent |-> d.sent,
                     calls |-> d.calls, chk |-> d.chk,
                     now_ms |-> d.now_ms, random |-> d.random,
                     delay_cfg_ret |-> d.delay_cfg_ret,
                     work_ret |-> d4.ret, nrecv |-> d.nrecv,
                     read_ok |-> d.read_ok]
    /\ UNCHANGED <<build, api, identification, codec, resolved>>

(* sent.total and sent.telemetry kept modulo 4: no decision of the loop     *)
(* reads them, and an unbounded run then has finitely many states          *)
SentModulo(sys) ==
    SysSet(SysSet(sys, "sent.total", SysGet(sys, "sent.total") % 4),
           "sent.telemetry", SysGet(sys, "sent.telemetry") % 4)

(* One invocation of caniot_device_process of a loop that runs for ever:   *)
(* the invocations are not counted, recv reports A.recv_err, the callbacks *)
(* and send answer from A.                                                 *)
PollEmpty(A) ==
    /\ \E dt \in A.dt,
          recv \in {[ret |-> e, frame |-> caniot_clear_frame]
                      : e \in A.recv_err},
          on_read \in (IF flags.config_dirty /\ api.on_read
                       THEN A.on_read ELSE {<<0>>}),
          newcfg \in (IF flags.config_dirty /\ api.on_read
                      THEN A.newcfg ELSE {config}) :
       \E d2 \in {RecvStep(
                     PeriodicStep(
                         ProcessStart(AdvanceClock(clock, dt)),
                         Inputs(recv, on_read, newcfg, NoHandlers, 0, 0)),
                     Inputs(recv, on_read, newcfg, NoHandlers, 0, 0))} :
       \E h \in HandlerAnswers(A, d2, recv), garbage \in StackFrames(A, d2) :
       \E d4 \in {GateStep(
                     WorkStep([d2 EXCEPT !.resp = garbage],
                              Inputs(recv, on_read, newcfg, h, 0, 0)),
                     Inputs(recv, on_read, newcfg, h, 0, 0))} :
       \E send \in (IF d4.emit THEN A.send ELSE {0}) :
       \E d \in {SendStep(d4, Inputs(recv, on_read, newcfg, h, 0, send))} :
          /\ system' = SentModulo(d.sys)
          /\ config' = d.cfg
          /\ flags' = d.fl
          /\ startup' = d.st
          /\ clock' = d.clk
          /\ obs' = [op |-> "process", recv_ret |-> recv.ret,
                     req |-> recv.frame, rdm |-> 0, ret |-> d.ret,
                     work |-> d.work, rx_ret |-> d.rx_ret,
                     rx_resp |-> d.rx_resp, resp |-> d.resp,
                     built |-> d.built, sent |-> d.sent,
                     calls |-> d.calls, chk |-> d.chk,
                     now_ms |-> d.now_ms, random |-> d.random,
                     delay_cfg_ret |-> d.delay_cfg_ret,
                     work_ret |-> d4.ret, nrecv |-> d.nrecv,
                     read_ok |-> d.read_ok]
    /\ UNCHANGED <<build, api, identification, steps, codec, resolved>>

(* caniot_device_config_mark_dirty *)
MarkDirty ==
    /\ steps < MaxSteps
    /\ ~flags.config_dirty
    /\ flags' = [flags EXCEPT !.config_dirty = TRUE]
    /\ steps' = steps + 1
    /\ obs' = [ObsIdle EXCEPT !.op = "mark_dirty"]
    /\ UNCHANGED <<build, api, identification, system, config, startup,
                   clock, codec, resolved>>

(* caniot_device_time_until_process, called by the application A.dt after  *)
(* the last operation                                                      *)
TimeUntilProcess(A) ==
    /\ steps < A.steps
    /\ \E dt \in A.dt,
          on_read \in (IF flags.config_dirty /\ api.on_read
                       THEN A.on_read ELSE {<<0>>}),
          newcfg \in (IF flags.config_dirty /\ api.on_read
                      THEN A.newcfg ELSE {config}) :
       \E d \in {caniot_device_time_until_process(
                     ProcessStart(AdvanceClock(clock, dt)),
                     Inputs([ret |-> -CANIOT_EAGAIN,
                             frame |-> caniot_clear_frame],
                            on_read, newcfg, NoHandlers, 0, 0))} :
          /\ config' = d.cfg
          /\ flags' = d.fl
          /\ clock' = d.clk
          /\ steps' = steps + 1
          /\ obs' = [ObsIdle EXCEPT !.op = "time_until_process",
                                    !.ret = d.remaining,
                                    !.calls = d.calls,
                                    !.read_ok = d.read_ok]
    /\ UNCHANGED <<build, api, identification, system, startup, codec,
                   resolved>>

(* caniot_app_deinit *)
Deinit ==
    /\ steps < MaxSteps
    /\ flags.initialized
    /\ flags' = [flags EXCEPT !.request_telemetry_ep = 0,
                              !.initialized = FALSE,
                              !.config_dirty = TRUE]
    /\ steps' = steps + 1
    /\ obs' = [ObsIdle EXCEPT !.op = "deinit"]
    /\ UNCHANGED <<build, api, identification, system, config, startup,
                   clock, codec, resolved>>

(* caniot_device_trigger_telemetry_ep, called by the application *)
Trigger(ep) ==
    /\ steps < MaxSteps
    /\ flags' = caniot_device_trigger_telemetry_ep(flags, ep)
    /\ steps' = steps + 1
    /\ obs' = [ObsIdle EXCEPT !.op = "trigger"]
    /\ UNCHANGED <<build, api, identification, system, config, startup,
                   clock, codec, resolved>>

(* handle_command_req on a command frame of len bytes for endpoint ep      *)
(* whose byte [8] decodes to sys_cmd: the system command is dispatched     *)
(* first, through call_blc_sys_cmd_cb, then the command handler runs       *)
BlcCommand ==
    /\ obs.op = "init"
    /\ \E ep \in {CANIOT_ENDPOINT_1, CANIOT_ENDPOINT_BOARD_CONTROL},
          len \in {8, 9}, sys_cmd \in SysCommands :
       LET dispatch == /\ build.blc
                       /\ ep = CANIOT_ENDPOINT_BOARD_CONTROL
                       /\ len > 8
                       /\ api.blc_sys_cmd_handler
           todo == IF dispatch THEN handle_blc_sys_cmd(sys_cmd) ELSE <<>>
       IN obs' = [op |-> "blc", ep |-> ep, len |-> len, sys_cmd |-> sys_cmd,
                  dispatch |-> dispatch, todo |-> todo,
                  pc |-> IF todo # <<>> THEN "call_blc_sys_cmd_cb"
                         ELSE "command_handler",
                  depth |-> IF todo # <<>> THEN 1 ELSE 0,
                  calls |-> <<>>]
    /\ UNCHANGED <<build, api, identification, system, config, flags,
                   startup, clock, steps, codec, resolved>>

(* the body of call_blc_sys_cmd_cb: `return call_blc_sys_cmd_cb(dev, cmd)`. *)
(* The call needs a new stack frame, or none where the compiler turns the  *)
(* tail call into a jump; a call with no stack left ends the program.      *)
CallBlcSysCmdCb ==
    /\ obs.op = "blc"
    /\ obs.pc = "call_blc_sys_cmd_cb"
    /\ \/ /\ obs.depth < MaxDepth
          /\ obs' = [obs EXCEPT !.depth = @ + 1]
       \/ /\ obs.depth = MaxDepth
          /\ obs' = [obs EXCEPT !.pc = "stack_overflow"]
       \/ obs' = obs
    /\ UNCHANGED <<build, api, identification, system, config, flags,
                   startup, clock, steps, codec, resolved>>

(* the command handler, once handle_blc_sys_cmd has returned 0 *)
BlcCommandHandler ==
    /\ obs.op = "blc"
    /\ obs.pc = "command_handler"
    /\ obs' = [obs EXCEPT !.pc = "returned",
                          !.calls = IF api.command_handler
                                    THEN Append(@, "command_handler") ELSE @]
    /\ UNCHANGED <<build, api, identification, system, config, flags,
                   startup, clock, steps, codec, resolved>>

-----------------------------------------------------------------------------
(* Environments.                                                           *)

ApiFull ==
    [command_handler |-> TRUE, telemetry_handler |-> TRUE, on_read |-> TRUE,
     on_write |-> TRUE, custom_read |-> FALSE, custom_write |-> FALSE,
     blc_sys_cmd_handler |-> FALSE]

ApiHandlers ==
    [command_handler |-> TRUE, telemetry_handler |-> TRUE, on_read |-> FALSE,
     on_write |-> FALSE, custom_read |-> FALSE, custom_write |-> FALSE,
     blc_sys_cmd_handler |-> FALSE]

ApiBare ==
    [command_handler |-> FALSE, telemetry_handler |-> FALSE,
     on_read |-> FALSE, on_write |-> FALSE, custom_read |-> FALSE,
     custom_write |-> FALSE, blc_sys_cmd_handler |-> FALSE]

(* custom attribute callbacks: both, or one of the two *)
ApiCustom == [ApiHandlers EXCEPT !.custom_read = TRUE, !.custom_write = TRUE]
ApiCustomRead == [ApiHandlers EXCEPT !.custom_read = TRUE]
ApiCustomWrite == [ApiHandlers EXCEPT !.custom_write = TRUE]

(* CONFIG_CANIOT_DEVICE_FILTER_FRAME, CONFIG_CANIOT_DEVICE_STARTUP_ATTRIBUTES *)
(* and CONFIG_CANIOT_DEVICE_HANDLE_BLC_SYS_CMD                             *)
BuildPlain == [filter |-> FALSE, startup |-> FALSE, blc |-> FALSE]
BuildFull == [filter |-> TRUE, startup |-> TRUE, blc |-> FALSE]
BuildBlc == [filter |-> FALSE, startup |-> FALSE, blc |-> TRUE]

ApiBlc == [ApiHandlers EXCEPT !.blc_sys_cmd_handler = TRUE]

DidClass1 == CANIOT_DID(1, 2)
DidClass0 == CANIOT_DID(0, 3)

(* periodic telemetry on endpoint 1 every second, error frames enabled *)
CfgPeriodic == MkConfig(1000, 10, 30, ConfigFlags(1, 1, 1, 1))
(* no periodic telemetry, no error frames, delay_max below delay_min *)
CfgQuiet == MkConfig(2000, 50, 20, ConfigFlags(0, 0, 0, 0))

DriverError == -5
HandlerError == -CANIOT_ENOTSUP

Rd(to, key) ==
    Tpl(to, CANIOT_FRAME_TYPE_READ_ATTRIBUTE, CANIOT_QUERY,
        CANIOT_ENDPOINT_2, 2, key, 0)

Wr(to, key, val) ==
    Tpl(to, CANIOT_FRAME_TYPE_WRITE_ATTRIBUTE, CANIOT_QUERY,
        CANIOT_ENDPOINT_1, 6, key, val)

TlmReq(to, ep) ==
    Tpl(to, CANIOT_FRAME_TYPE_TELEMETRY, CANIOT_QUERY, ep, 0, 0, 0)

CmdReq(to, ep) ==
    Tpl(to, CANIOT_FRAME_TYPE_COMMAND, CANIOT_QUERY, ep, 2, 1, 0)

(* the requests of the attribute scenarios: keys of every section, of both *)
(* classes, hidden, unresolvable, and frames too short                     *)
RxFrames ==
    {Rd("own", 0), Rd("own", 1), Rd("own", 16), Rd("own", 17),
     Rd("own", 112), Rd("own", 4256), Rd("own", 8192), Rd("own", 8304),
     Rd("own", 8400), Rd("own", 12288),
     [Rd("own", 0) EXCEPT !.len = 1],
     Wr("own", 0, 5), Wr("own", 16, 5), Wr("own", 96, 5),
     Wr("own", 8192, 500), Wr("own", 8240, 70000), Wr("own", 8304, 7),
     Wr("own", 8400, 7),
     Wr("own", 4112, 7), Wr("own", 12288, 1),
     [Wr("own", 8192, 500) EXCEPT !.len = 4],
     TlmReq("own", CANIOT_ENDPOINT_APP), CmdReq("own", CANIOT_ENDPOINT_1),
     [TlmReq("own", CANIOT_ENDPOINT_2) EXCEPT !.query = CANIOT_RESPONSE],
     [Rd("own", 0) EXCEPT !.query = CANIOT_RESPONSE]}

RxAlphabet ==
    [dt |-> {0}, rx |-> RxFrames, recv_err |-> {-CANIOT_EAGAIN},
     on_read |-> {<<0>>, <<DriverError>>}, newcfg |-> {CfgPeriodic},
     cmd |-> {0, HandlerError},
     tlm |-> {[ret |-> 0, len |-> 8], [ret |-> HandlerError, len |-> 0]},
     on_write |-> {[ret |-> 0, shift |-> 0],
                   [ret |-> DriverError, shift |-> 0]},
     custom |-> {NoCustom}, set_msec |-> {0}, rdm |-> {0},
     send |-> {0}, garbage |-> {caniot_clear_frame}, steps |-> MaxSteps]

(* the requests of the telemetry scenarios *)
LoopFrames ==
    {TlmReq("own", CANIOT_ENDPOINT_1), TlmReq("own", CANIOT_ENDPOINT_2),
     TlmReq("bcast", CANIOT_ENDPOINT_1), Rd("bcast", 16),
     TlmReq("other", CANIOT_ENDPOINT_1)}

StaleTelemetry ==
    [id |-> [type |-> CANIOT_FRAME_TYPE_TELEMETRY, query |-> CANIOT_RESPONSE,
             cls |-> 1, sid |-> 2, endpoint |-> CANIOT_ENDPOINT_1],
     len |-> 8, buf |-> TelemetryBuf(8)]

(* caniot.c: the query builders write the id fields and the payload of  *)
(* the caller's frame and leave its other fields                           *)
caniot_build_query_telemetry(frame, endpoint) ==
    [frame EXCEPT !.id.type = CANIOT_FRAME_TYPE_TELEMETRY,
                  !.id.query = CANIOT_QUERY,
                  !.id.endpoint = endpoint,
                  !.len = 0]

(* memcpy(frame->buf, buf, frame->len) *)
caniot_build_query_command(frame, endpoint, buf, size) ==
    [frame EXCEPT !.id.type = CANIOT_FRAME_TYPE_TELEMETRY,
                  !.id.query = CANIOT_QUERY,
                  !.id.endpoint = endpoint,
                  !.len = MIN(size, 8),
                  !.buf = [i \in 1 .. 8 |->
                              IF i <= MIN(size, 8) THEN buf[i] ELSE @[i]]]

(* the caller's frame: cleared, or holding an earlier frame *)
QueryFrames == {caniot_clear_frame, StaleTelemetry}

(* command payloads of 0 to MaxQuerySize bytes *)
MaxQuerySize == 10
QueryPayloads ==
    {[i \in 1 .. n |-> b + i] : n \in 0 .. MaxQuerySize, b \in {16, 160}}

BuildQueryCommand ==
    /\ codec.op = "none"
    /\ \E frame \in QueryFrames, endpoint \in Endpoints,
          buf \in QueryPayloads :
          codec' = [op |-> "query_command", before |-> frame,
                    endpoint |-> endpoint, buf |-> buf, size |-> Len(buf),
                    frame |-> caniot_build_query_command(
                                  frame, endpoint, buf, Len(buf))]
    /\ UNCHANGED <<resolved, devVars>>

BuildQueryTelemetry ==
    /\ codec.op = "none"
    /\ \E frame \in QueryFrames, endpoint \in Endpoints :
          codec' = [op |-> "query_telemetry", before |-> frame,
                    endpoint |-> endpoint, buf |-> <<>>, size |-> 0,
                    frame |-> caniot_build_query_telemetry(frame, endpoint)]
    /\ UNCHANGED <<resolved, devVars>>

QueryNext == BuildQueryCommand \/ BuildQueryTelemetry

LoopAlphabet ==
    [dt |-> {0, 1200}, rx |-> LoopFrames,
     recv_err |-> {-CANIOT_EAGAIN, DriverError},
     on_read |-> {<<0>>, <<DriverError, 0>>, <<DriverError, DriverError>>},
     newcfg |-> {CfgPeriodic},
     cmd |-> {0},
     tlm |-> {[ret |-> 0, len |-> 8], [ret |-> HandlerError, len |-> 0]},
     on_write |-> {[ret |-> 0, shift |-> 0]},
     custom |-> {NoCustom}, set_msec |-> {0}, rdm |-> {20, 65535},
     send |-> {0, DriverError},
     garbage |-> {caniot_clear_frame, StaleTelemetry}, steps |-> MaxSteps]

(* start-up publication: recv never delivers a frame *)
StartupAlphabet ==
    [dt |-> {0, 1200}, rx |-> {}, recv_err |-> {-CANIOT_EAGAIN},
     on_read |-> {<<0>>}, newcfg |-> {CfgPeriodic},
     cmd |-> {0}, tlm |-> {[ret |-> 0, len |-> 8]},
     on_write |-> {[ret |-> 0, shift |-> 0]},
     custom |-> {NoCustom}, set_msec |-> {0}, rdm |-> {0},
     send |-> {0, DriverError},
     garbage |-> {caniot_clear_frame, StaleTelemetry},
     steps |-> MaxSteps + 1]

(* attribute requests for keys the schema resolves and for keys it does    *)
(* not (part, attribute and section out of range)                          *)
CustomFrames ==
    {Rd("own", 16), Rd("own", 17), Rd("own", 112), Rd("own", 12288),
     Rd("own", 20481),
     Wr("own", 8192, 500), Wr("own", 16, 5), Wr("own", 112, 5),
     Wr("own", 12288, 9),
     [Wr("own", 12288, 9) EXCEPT !.len = 4]}

CustomAlphabet ==
    [dt |-> {0}, rx |-> CustomFrames, recv_err |-> {-CANIOT_EAGAIN},
     on_read |-> {<<0>>}, newcfg |-> {CfgPeriodic},
     cmd |-> {0}, tlm |-> {[ret |-> 0, len |-> 8]},
     on_write |-> {[ret |-> 0, shift |-> 0]},
     custom |-> {[cwrite |-> 0, cread |-> [ret |-> 0, val |-> 77]],
                 [cwrite |-> HandlerError, cread |-> [ret |-> 0, val |-> 77]],
                 [cwrite |-> 0, cread |-> [ret |-> HandlerError, val |-> 0]]},
     set_msec |-> {0}, rdm |-> {0}, send |-> {0},
     garbage |-> {caniot_clear_frame}, steps |-> MaxSteps]

(* writes that move the time base: system.time, and configuration writes  *)
(* whose on_write callback shifts the clock (a new timezone); after        *)
(* set_time the clock reports either a restarted or a running millisecond  *)
(* count                                                                   *)
TimeFrames ==
    {Wr("own", 4112, 7), Wr("own", 4112, 1), Wr("own", 4112, 86400),
     Wr("own", 8272, 3600), Wr("own", 8192, 500),
     TlmReq("own", CANIOT_ENDPOINT_1)}

TimeAlphabet ==
    [dt |-> {0, 400}, rx |-> TimeFrames, recv_err |-> {-CANIOT_EAGAIN},
     on_read |-> {<<0>>}, newcfg |-> {CfgPeriodic},
     cmd |-> {0}, tlm |-> {[ret |-> 0, len |-> 8]},
     on_write |-> {[ret |-> 0, shift |-> 0], [ret |-> 0, shift |-> 3600],
                   [ret |-> DriverError, shift |-> 0]},
     custom |-> {NoCustom}, set_msec |-> {0, 250}, rdm |-> {0}, send |-> {0},
     garbage |-> {caniot_clear_frame}, steps |-> MaxSteps]

(* configuration reads and writes while on_read succeeds at once, fails,   *)
(* or succeeds at its second or third call                                 *)
DirtyFrames ==
    {Rd("own", 8192), Rd("own", 8240), Rd("own", 16), Wr("own", 8192, 500),
     TlmReq("own", CANIOT_ENDPOINT_1)}

DirtyAlphabet ==
    [dt |-> {0}, rx |-> DirtyFrames, recv_err |-> {-CANIOT_EAGAIN},
     on_read |-> {<<0>>, <<DriverError>>, <<DriverError, 0>>,
                  <<DriverError, DriverError, 0>>},
     newcfg |-> {CfgPeriodic},
     cmd |-> {0}, tlm |-> {[ret |-> 0, len |-> 8]},
     on_write |-> {[ret |-> 0, shift |-> 0]},
     custom |-> {NoCustom}, set_msec |-> {0}, rdm |-> {0}, send |-> {0},
     garbage |-> {caniot_clear_frame}, steps |-> MaxSteps + 1]

(* requests of the four types, accepted and refused, and frames that are   *)
(* not dispatched                                                          *)
CountFrames ==
    {CmdReq("own", CANIOT_ENDPOINT_1), TlmReq("own", CANIOT_ENDPOINT_APP),
     Rd("own", 4176), Rd("own", 12288), [Rd("own", 0) EXCEPT !.len = 1],
     Wr("own", 4176, 9), Wr("own", 4112, 7), Wr("own", 8192, 500),
     TlmReq("other", CANIOT_ENDPOINT_1),
     [TlmReq("own", CANIOT_ENDPOINT_2) EXCEPT !.query = CANIOT_RESPONSE]}

CountAlphabet ==
    [dt |-> {0}, rx |-> CountFrames, recv_err |-> {-CANIOT_EAGAIN},
     on_read |-> {<<0>>}, newcfg |-> {CfgPeriodic},
     cmd |-> {0, HandlerError},
     tlm |-> {[ret |-> 0, len |-> 8], [ret |-> HandlerError, len |-> 0]},
     on_write |-> {[ret |-> 0, shift |-> 0]},
     custom |-> {NoCustom}, set_msec |-> {0}, rdm |-> {0}, send |-> {0},
     garbage |-> {caniot_clear_frame}, steps |-> MaxSteps]

(* received.command, request_telemetry, write_attribute and read_attribute *)
(* of a device that has been running since init: none yet, one counter at  *)
(* 2^32 - 1, or received.total at 2^32 - 1 with no counter at its maximum  *)
RunningCounters ==
    {<<0, 0, 0, 0>>, <<-1, 0, 0, 0>>, <<0, -1, 0, 0>>, <<0, 0, -1, 0>>,
     <<0, 0, 0, -1>>, <<-3, 2, 0, 0>>, <<1, 1, -6, 3>>}

(* periodic telemetry due at every invocation, on the board-control        *)
(* endpoint and on endpoint 1                                              *)
CfgEvery == MkConfig(0, 10, 30, ConfigFlags(1, 0, 3, 1))
CfgEveryEp1 == MkConfig(0, 10, 30, ConfigFlags(1, 0, 1, 1))

(* empty RX for ever, the telemetry handler and send always succeeding,    *)
(* the invocations following each other within the same millisecond        *)
LiveAlphabet ==
    [dt |-> {0}, rx |-> {}, recv_err |-> {-CANIOT_EAGAIN},
     on_read |-> {<<0>>}, newcfg |-> {CfgPeriodic},
     cmd |-> {0}, tlm |-> {[ret |-> 0, len |-> 8]},
     on_write |-> {[ret |-> 0, shift |-> 0]},
     custom |-> {NoCustom}, set_msec |-> {0}, rdm |-> {0}, send |-> {0},
     garbage |-> {caniot_clear_frame, StaleTelemetry}, steps |-> MaxSteps]

(* empty RX for ever while config.on_read answers 0, fails, or fails once  *)
PublishAlphabet ==
    [dt |-> {0}, rx |-> {}, recv_err |-> {-CANIOT_EAGAIN},
     on_read |-> {<<0>>, <<DriverError>>, <<DriverError, 0>>},
     newcfg |-> {CfgPeriodic, CfgQuiet},
     cmd |-> {0}, tlm |-> {[ret |-> 0, len |-> 8]},
     on_write |-> {[ret |-> 0, shift |-> 0]},
     custom |-> {NoCustom}, set_msec |-> {0}, rdm |-> {0},
     send |-> {0, DriverError},
     garbage |-> {caniot_clear_frame, StaleTelemetry}, steps |-> MaxSteps]

PublishLists == {<<16, 8192>>, <<8192, 16>>, <<8304, 16>>, <<16>>}

(* the loop paced by caniot_device_time_until_process *)
TimerAlphabet ==
    [dt |-> {0, 400, 1200}, rx |-> {TlmReq("own", CANIOT_ENDPOINT_1)},
     recv_err |-> {-CANIOT_EAGAIN},
     on_read |-> {<<0>>, <<DriverError>>}, newcfg |-> {CfgPeriodic},
     cmd |-> {0}, tlm |-> {[ret |-> 0, len |-> 8]},
     on_write |-> {[ret |-> 0, shift |-> 0]},
     custom |-> {NoCustom}, set_msec |-> {0}, rdm |-> {0}, send |-> {0},
     garbage |-> {caniot_clear_frame}, steps |-> MaxSteps + 1]

(* the start-up lists, without their terminating zero *)
StartupLists == {<<16, 8192>>, <<8192>>, <<48, 16>>, <<0, 3>>}

-----------------------------------------------------------------------------
(* Specifications.                                                         *)

vars == <<codec, resolved, build, api, identification, system, config,
          flags, startup, clock, steps, obs>>

DeviceIdle ==
    caniot_app_init(BuildPlain, ApiBare, DidClass1, CfgQuiet, <<>>, 0)

(* the identifier codec and the targeting predicate over all identifiers *)
CodecInit == PureInit /\ DeviceIdle

SpecCodec == CodecInit /\ [][CodecNext]_vars

(* the targeting of raw CAN frames over all identifiers *)
SpecTargeted == CodecInit /\ [][TargetedNext]_vars

SpecFilter == CodecInit /\ [][FilterNext]_vars

(* the attribute resolver over all keys *)
SpecResolve == CodecInit /\ [][ResolveNext]_vars

(* part descriptors over every attribute size, and over the schema *)
SpecParts == CodecInit /\ [][PartNext]_vars

(* the query builders of caniot.c *)
SpecQuery == CodecInit /\ [][QueryNext]_vars

(* a device of class 0 or 1 answering attribute, command and telemetry     *)
(* requests                                                                *)
RxInit ==
    /\ PureInit
    /\ \E did \in {DidClass0, DidClass1}, a \in {ApiFull, ApiBare},
          cfg \in {CfgPeriodic, CfgQuiet} :
          caniot_app_init(BuildPlain, a, did, cfg, <<>>, 2)

RxNext == Process(RxAlphabet)

SpecRx == RxInit /\ [][RxNext]_vars

(* the device loop: periodic and requested telemetry, start-up attributes  *)
Init ==
    /\ PureInit
    /\ \E bld \in {BuildPlain, BuildFull}, a \in {ApiFull, ApiHandlers},
          cfg \in {CfgPeriodic, CfgQuiet} :
          caniot_app_init(bld, a, DidClass1, cfg,
                          IF bld.startup THEN <<16, 8304>> ELSE <<>>, 2)

Next ==
    \/ Process(LoopAlphabet)
    \/ MarkDirty
    \/ \E ep \in {CANIOT_ENDPOINT_APP, CANIOT_ENDPOINT_BOARD_CONTROL} :
          Trigger(ep)

Spec == Init /\ [][Next]_vars

(* a device publishing its start-up attributes on an idle bus *)
StartupInit ==
    /\ PureInit
    /\ \E a \in {ApiFull, ApiHandlers}, cfg \in {CfgPeriodic, CfgQuiet},
          attrs \in StartupLists :
          caniot_app_init(BuildFull, a, DidClass1, cfg, attrs, 2)

StartupNext == Process(StartupAlphabet)

(* an application that asks how long it may sleep between invocations *)
TimerInit ==
    /\ PureInit
    /\ \E bld \in {BuildPlain, BuildFull}, a \in {ApiFull, ApiHandlers},
          cfg \in {CfgPeriodic, CfgQuiet} :
          caniot_app_init(bld, a, DidClass1, cfg,
                          IF bld.startup THEN <<16>> ELSE <<>>, 2)

TimerNext ==
    \/ Process(TimerAlphabet)
    \/ TimeUntilProcess(TimerAlphabet)
    \/ MarkDirty

SpecTimer == TimerInit /\ [][TimerNext]_vars

(* a device whose time base is moved by attribute writes *)
TimeInit ==
    /\ PureInit
    /\ \E a \in {ApiFull, ApiHandlers}, cfg \in {CfgPeriodic, CfgQuiet} :
          caniot_app_init(BuildPlain, a, DidClass1, cfg, <<>>, 2)

TimeNext == Process(TimeAlphabet)

SpecTime == TimeInit /\ [][TimeNext]_vars

(* a device whose configuration is marked dirty between invocations *)
DirtyInit ==
    /\ PureInit
    /\ \E a \in {ApiFull, ApiHandlers}, cfg \in {CfgPeriodic, CfgQuiet} :
          caniot_app_init(BuildPlain, a, DidClass1, cfg, <<>>, 2)

DirtyNext ==
    \/ Process(DirtyAlphabet)
    \/ TimeUntilProcess(DirtyAlphabet)
    \/ MarkDirty
    \/ Deinit

SpecDirty == DirtyInit /\ [][DirtyNext]_vars

(* a device that has received the requests counted in RunningCounters      *)
(* since caniot_app_init                                                   *)
CountInit ==
    /\ PureInit
    /\ build = BuildPlain
    /\ api \in {ApiFull, ApiBare}
    /\ identification = IdentificationOf(DidClass1)
    /\ config \in {CfgPeriodic, CfgQuiet}
    /\ clock = [sec |-> 2, msec |-> 0]
    /\ \E n \in RunningCounters :
          system = SysSet(SysSet(SysSet(SysSet(SysSet(SysSet(
                       ZeroMem(caniot_device_system_layout),
                       "start_time", 2),
                       "received.command", n[1]),
                       "received.request_telemetry", n[2]),
                       "received.write_attribute", n[3]),
                       "received.read_attribute", n[4]),
                       "received.total", n[1] + n[2] + n[3] + n[4])
    /\ flags = [request_telemetry_ep |-> 0, config_dirty |-> TRUE,
                initialized |-> TRUE, startup_attrs_sent |-> TRUE]
    /\ startup = [attrs |-> <<>>, cursor |-> 0]
    /\ steps = 0
    /\ obs = ObsIdle

CountNext == Process(CountAlphabet)

SpecCount == CountInit /\ [][CountNext]_vars

(* a loop that never stops invoking caniot_device_process while the        *)
(* application requests telemetry at most MaxSteps times                   *)
LiveInit ==
    /\ PureInit
    /\ \E bld \in {BuildPlain, BuildFull},
          cfg \in {CfgPeriodic, CfgQuiet, CfgEvery, CfgEveryEp1} :
          caniot_app_init(bld, ApiHandlers, DidClass1, cfg,
                          IF bld.startup THEN <<16, 8304>> ELSE <<>>, 2)

LiveNext ==
    \/ PollEmpty(LiveAlphabet)
    \/ \E ep \in Endpoints : Trigger(ep)

SpecLive ==
    LiveInit /\ [][LiveNext]_vars /\ WF_vars(PollEmpty(LiveAlphabet))

(* start-up publication by a loop that never stops, the application asking *)
(* at most MaxSteps times how long it may sleep                            *)
PublishInit ==
    /\ PureInit
    /\ \E a \in {ApiFull, ApiHandlers}, cfg \in {CfgPeriodic, CfgQuiet},
          attrs \in PublishLists :
          caniot_app_init(BuildFull, a, DidClass1, cfg, attrs, 2)

PublishNext ==
    \/ PollEmpty(PublishAlphabet)
    \/ TimeUntilProcess(PublishAlphabet)

SpecPublish ==
    PublishInit /\ [][PublishNext]_vars /\ WF_vars(PollEmpty(PublishAlphabet))

(* a build with BLC system commands receiving one command frame *)
BlcInit ==
    /\ PureInit
    /\ \E a \in {ApiBlc, ApiHandlers} :
          caniot_app_init(BuildBlc, a, DidClass1, CfgPeriodic, <<>>, 2)

BlcNext == BlcCommand \/ CallBlcSysCmdCb \/ BlcCommandHandler

SpecBlc == BlcInit /\ [][BlcNext]_vars

(* a device with custom attribute callbacks answering attribute requests *)
CustomInit ==
    /\ PureInit
    /\ \E a \in {ApiCustom, ApiCustomRead, ApiCustomWrite},
          cfg \in {CfgPeriodic, CfgQuiet} :
          caniot_app_init(BuildPlain, a, DidClass1, cfg, <<>>, 2)

CustomNext == Process(CustomAlphabet)

SpecCustom == CustomInit /\ [][CustomNext]_vars

SpecStartup == StartupInit /\ [][StartupNext]_vars

-----------------------------------------------------------------------------
(* Properties.                                                             *)

(* C1: caniot_id_to_canid and caniot_canid_to_id are mutually inverse:     *)
(* packing the unpacked fields of any 11-bit identifier gives it back, and *)
(* unpacking the packed form of any field tuple gives the tuple back.      *)
C1_IdRoundTrip ==
    /\ codec.op = "unpack" => codec.packed = codec.canid
    /\ codec.op = "pack" => codec.unpacked = codec.id

C1_Witness ==
    /\ codec.op = "pack"
    /\ codec.id = [type |-> 2, query |-> 1, cls |-> 5, sid |-> 3,
                   endpoint |-> 3]
    /\ codec.unpacked = codec.id
    /\ codec.packed = 1774

NotBroadcastDid(did) == CANIOT_DID_CLS(did) < 7 /\ CANIOT_DID_SID(did) < 7

AddressedTo(did, id) ==
    \/ id.cls = CANIOT_DID_CLS(did) /\ id.sid = CANIOT_DID_SID(did)
    \/ id.cls = 7 /\ id.sid = 7

(* C2 as stated: for a device id with class < 7 and sub-id < 7,            *)
(* caniot_device_is_target is true iff the identifier's class and sub-id   *)
(* equal the device's or are both 7, whatever its other fields.            *)
C2_TargetIgnoresQuery ==
    (codec.op = "is_target" /\ NotBroadcastDid(codec.did)) =>
        (codec.target <=> AddressedTo(codec.did, codec.id))

(* C2 amended: for a device id with class < 7 and sub-id < 7,              *)
(* caniot_device_is_target is true iff the identifier is a query and its   *)
(* class and sub-id equal the device's or are both 7; type and endpoint    *)
(* have no influence.                                                      *)
C2_TargetIffQueryAddressed ==
    (codec.op = "is_target" /\ NotBroadcastDid(codec.did)) =>
        (codec.target <=> (codec.id.query = 1 /\
                           AddressedTo(codec.did, codec.id)))

C2_Witness ==
    /\ codec.op = "is_target"
    /\ codec.did = 10
    /\ codec.id.cls = 7 /\ codec.id.sid = 7 /\ codec.id.query = 1
    /\ codec.id.type = 3 /\ codec.id.endpoint = 2
    /\ codec.target

(* the table lengths and attribute sizes of the schema, by section index *)
SchemaLen(sec) == Len(attr_sections[sec + 1].array)
SchemaSize(sec, a) == attr_sections[sec + 1].array[a + 1].size

ExpectedResolve(key) ==
    LET sec == (key \div 4096) % 16
        a == (key \div 16) % 256
        part == key % 16
    IN IF sec \notin {0, 1, 2} THEN -CANIOT_EKEYSECTION
       ELSE IF ~(a < SchemaLen(sec)) THEN -CANIOT_EKEYATTR
       ELSE IF part * 4 >= SchemaSize(sec, a) THEN -CANIOT_EKEYPART
       ELSE 0

(* C3: attr_resolve is total over the 65536 keys with a fixed precedence:  *)
(* -EKEYSECTION iff the section index is not 0, 1 or 2; otherwise          *)
(* -EKEYATTR iff the attribute index is not below the section's table      *)
(* length; otherwise -EKEYPART iff part*4 >= the attribute's size;         *)
(* otherwise success.                                                      *)
C3_ResolveTotal ==
    resolved.op = "resolve" => resolved.ret = ExpectedResolve(resolved.key)

C3_Witness ==
    /\ resolved.op = "resolve"
    /\ resolved.key = 8401
    /\ resolved.ret = -CANIOT_EKEYPART

(* the last operation was a caniot_device_process that handed a received   *)
(* query of the given types to caniot_device_handle_rx_frame               *)
HandledQuery(types) ==
    /\ obs.op = "process"
    /\ obs.work = "rx"
    /\ obs.req.id.query = 1
    /\ obs.req.id.type \in types

ReqKey == obs.req.buf[1] + 256 * obs.req.buf[2]

WellFormedRead == HandledQuery({3}) /\ obs.req.len >= 2
WellFormedWrite == HandledQuery({2}) /\ obs.req.len >= 6

SchemaOption(key) ==
    attr_sections[((key \div 4096) % 16) + 1]
        .array[((key \div 16) % 256) + 1].option

DeviceClass == (identification[0][1] \div 8) % 8

(* C4: a well-formed write_attribute request for a resolvable key of the   *)
(* identification section returns -EROATTR, and no operation modifies      *)
(* identification memory.                                                  *)
C4_IdentificationReadOnly ==
    /\ [](( /\ WellFormedWrite
            /\ ReqKey \div 4096 = 0
            /\ ExpectedResolve(ReqKey) = 0 ) => obs.rx_ret = -CANIOT_EROATTR)
    /\ [][identification' = identification]_vars

C4_Witness ==
    /\ WellFormedWrite
    /\ ReqKey = 16
    /\ obs.rx_ret = -CANIOT_EROATTR
    /\ identification[2][1] = 258

IsHiddenKey(key) ==
    /\ ExpectedResolve(key) = 0
    /\ (SchemaOption(key) % 4) = 0

(* C5: a read_attribute request for a hidden attribute (neither readable   *)
(* nor writable, such as key 0x10A0) returns an error and never a success  *)
(* response carrying the value.                                            *)
C5_HiddenReadFails ==
    (WellFormedRead /\ IsHiddenKey(ReqKey)) =>
        /\ obs.rx_ret # 0
        /\ caniot_is_error_frame(obs.rx_resp.id)

IsClassRestricted(key) ==
    /\ ExpectedResolve(key) = 0
    /\ (SchemaOption(key) \div 32) % 2 = 0

SchemaClass(key) == (SchemaOption(key) \div 4) % 8

(* C6: a read_attribute or well-formed write_attribute request for a key   *)
(* restricted to a class other than the device's returns -ECLSATTR; a key  *)
(* of the device's class or of all classes never yields -ECLSATTR.         *)
C6_ClassGating ==
    (WellFormedRead \/ WellFormedWrite) =>
        /\ (IsClassRestricted(ReqKey) /\ SchemaClass(ReqKey) # DeviceClass)
              => obs.rx_ret = -CANIOT_ECLSATTR
        /\ (ExpectedResolve(ReqKey) = 0 /\
            (~IsClassRestricted(ReqKey) \/ SchemaClass(ReqKey) = DeviceClass))
              => obs.rx_ret # -CANIOT_ECLSATTR

(* the periodic check of the last invocation found telemetry due *)
PeriodicDue ==
    /\ obs.op = "process"
    /\ obs.chk.enabled
    /\ U32Ge(obs.chk.sample_ms - obs.chk.last_ms, obs.chk.period)

(* a telemetry response on endpoint ep was handed to send, which returned 0 *)
SentTelemetryOn(ep) ==
    \E i \in 1 .. Len(obs.sent) :
        /\ obs.sent[i].ret = 0
        /\ obs.sent[i].frame.id.query = 0
        /\ obs.sent[i].frame.id.type = 1
        /\ obs.sent[i].frame.id.endpoint = ep

EpBit(set, ep) == (set \div (2 ^ ep)) % 2 = 1

(* C7: in an invocation where periodic telemetry is enabled and            *)
(* now_ms - _last_telemetry_ms >= period, the bit of the configured        *)
(* endpoint is set, and it is still set on return unless a telemetry       *)
(* frame for that endpoint was successfully sent in the invocation.        *)
C7_PeriodicTrigger ==
    PeriodicDue =>
        /\ EpBit(obs.chk.eps_after, obs.chk.ep)
        /\ EpBit(flags.request_telemetry_ep, obs.chk.ep)
              \/ SentTelemetryOn(obs.chk.ep)

C7_Witness ==
    /\ PeriodicDue
    /\ obs.chk.ep = 1
    /\ EpBit(flags.request_telemetry_ep, 1)
    /\ Len(obs.sent) = 1
    /\ obs.sent[1].ret # 0

PeriodicEndpoint(ep) ==
    /\ (config[8][1] \div 16) % 2 = 1
    /\ (config[8][1] \div 4) % 4 = ep

(* C8: after a successful send of a telemetry response on endpoint e, bit  *)
(* e is cleared on return, and if periodic telemetry is enabled and e is   *)
(* the configured endpoint, _last_telemetry_ms is the now_ms of the clock  *)
(* sample of that invocation and last_telemetry is its system.time.        *)
C8_TelemetrySent ==
    obs.op = "process" =>
        \A e \in 0 .. 3 :
            SentTelemetryOn(e) =>
                /\ ~EpBit(flags.request_telemetry_ep, e)
                /\ PeriodicEndpoint(e) =>
                      /\ system[20][1] = obs.chk.sample_ms
                      /\ system[16][1] = obs.chk.time

AnswersBroadcast ==
    obs.work = "rx" /\ obs.req.id.cls = 7 /\ obs.req.id.sid = 7

DelayWithin(delay, delay_min, delay_max) ==
    IF delay_max > delay_min
    THEN delay_min <= delay /\ delay < delay_max
    ELSE /\ delay_min <= delay
         /\ delay < delay_min + CANIOT_TELEMETRY_DELAY_MAX_DEFAULT_MS

(* C9 as stated: the delay passed to send is 0 unless the response answers *)
(* a broadcast request, and then lies in [delay_min, delay_max) of the     *)
(* configuration, or in [delay_min, delay_min + 100) when delay_max <=     *)
(* delay_min.                                                              *)
C9_DelayFromConfig ==
    obs.op = "process" =>
        \A i \in 1 .. Len(obs.sent) :
            IF AnswersBroadcast
            THEN DelayWithin(obs.sent[i].delay, config[4][1] % 65536,
                             config[6][1] % 65536)
            ELSE obs.sent[i].delay = 0

(* C9 amended: the delay is 0 unless the response answers a broadcast      *)
(* request; then it lies in the configured range when the configuration    *)
(* refresh of get_response_delay succeeded, and in [0, 100), the range of  *)
(* the default delay_min and delay_max, when that refresh failed.          *)
C9_DelayFromConfigOrDefault ==
    obs.op = "process" =>
        \A i \in 1 .. Len(obs.sent) :
            IF ~AnswersBroadcast
            THEN obs.sent[i].delay = 0
            ELSE IF obs.delay_cfg_ret = 0
            THEN DelayWithin(obs.sent[i].delay, config[4][1] % 65536,
                             config[6][1] % 65536)
            ELSE DelayWithin(obs.sent[i].delay,
                             CANIOT_TELEMETRY_DELAY_MIN_DEFAULT_MS,
                             CANIOT_TELEMETRY_DELAY_MAX_DEFAULT_MS)

C9_Witness ==
    /\ obs.op = "process"
    /\ AnswersBroadcast
    /\ Len(obs.sent) = 1
    /\ obs.delay_cfg_ret = 0
    /\ config[4][1] = 10 /\ config[6][1] = 30
    /\ obs.sent[1].delay = 25

(* C10: when caniot_device_handle_rx_frame returns non-zero for a query,   *)
(* the response is an error frame (query=response, the request's endpoint, *)
(* type command for command and telemetry requests, write_attribute for    *)
(* attribute requests); when it returns 0 the response is not an error     *)
(* frame (type telemetry, respectively read_attribute).                    *)
C10_ErrorFrameIffError ==
    HandledQuery({0, 1, 2, 3}) =>
        LET attribute == obs.req.id.type \in {2, 3}
            id == obs.rx_resp.id
        IN IF obs.rx_ret # 0
           THEN /\ id.query = 0
                /\ id.endpoint = obs.req.id.endpoint
                /\ id.type = (IF attribute THEN 2 ELSE 0)
           ELSE /\ id.query = 0
                /\ id.type = (IF attribute THEN 3 ELSE 1)

C10_Witness ==
    /\ HandledQuery({3})
    /\ obs.req.id.endpoint = 2
    /\ obs.rx_ret = -CANIOT_EKEYATTR
    /\ obs.rx_resp.id = [type |-> 2, query |-> 0, cls |-> 1, sid |-> 2,
                         endpoint |-> 2]

(* byte i of the 32-bit two's-complement form of -n, n > 0: the one's      *)
(* complement of n - 1                                                     *)
NegByte(n, i) == 255 - (((n - 1) \div (2 ^ (8 * i))) % 256)

(* the last operation handed a received frame to the dispatcher, which     *)
(* failed                                                                  *)
DispatchFailed ==
    /\ obs.op = "process"
    /\ obs.work = "rx"
    /\ obs.rx_ret < 0

(* C11: in every error frame built by the dispatcher, bytes [0..4) are the *)
(* 32-bit little-endian two's complement of the negative result; for an    *)
(* attribute request failing with a result other than -EFRAME the frame    *)
(* has len 8 and bytes [4..8) hold the key, zero-extended, little-endian;  *)
(* for a command or telemetry request, and for -EFRAME, it has len 4.      *)
C11_ErrorPayload ==
    DispatchFailed =>
        /\ \A i \in 0 .. 3 : obs.rx_resp.buf[i + 1] = NegByte(-obs.rx_ret, i)
        /\ obs.req.id.query = 1 =>
              IF obs.req.id.type \in {2, 3} /\ obs.rx_ret # -CANIOT_EFRAME
              THEN /\ obs.rx_resp.len = 8
                   /\ obs.rx_resp.buf[5] = ReqKey % 256
                   /\ obs.rx_resp.buf[6] = ReqKey \div 256
                   /\ obs.rx_resp.buf[7] = 0
                   /\ obs.rx_resp.buf[8] = 0
              ELSE /\ obs.rx_resp.len = 4
                   /\ \A i \in 5 .. 8 : obs.rx_resp.buf[i] = 0

C11_Witness ==
    /\ HandledQuery({3})
    /\ ReqKey = 17
    /\ obs.rx_ret = -CANIOT_EKEYPART
    /\ obs.rx_resp.len = 8
    /\ obs.rx_resp.buf = <<252, 197, 255, 255, 17, 0, 0, 0>>

ReceivedCounters == {24, 28, 32, 36, 40, 44}

RequestHandlers ==
    {"command_handler", "telemetry_handler", "on_write", "set_time",
     "custom_attr.read", "custom_attr.write"}

(* C12: an invocation that receives a frame whose query bit is not 'query' *)
(* rejects it with -EINVAL, increments no received.* counter, invokes no   *)
(* handler and passes nothing to driver.send.                              *)
C12_NonQueryRejected ==
    [][(obs'.op = "process" /\ obs'.recv_ret = 0 /\ obs'.req.id.query # 1) =>
          /\ obs'.work = "rx"
          /\ obs'.rx_ret = -CANIOT_EINVAL
          /\ \A off \in ReceivedCounters : system'[off] = system[off]
          /\ \A i \in 1 .. Len(obs'.calls) : obs'.calls[i] \notin RequestHandlers
          /\ obs'.sent = <<>>]_vars

DeviceSubId == identification[0][1] % 8

(* C13: every frame built by the dispatcher or the telemetry builder has   *)
(* query=response and the class and sub-id held in identification memory,  *)
(* never the broadcast address, whatever address the request carried.      *)
C13_ResponseIdentity ==
    (obs.op = "process" /\ obs.built) =>
        /\ obs.resp.id.query = 0
        /\ obs.resp.id.cls = DeviceClass
        /\ obs.resp.id.sid = DeviceSubId
        /\ ~(obs.resp.id.cls = 7 /\ obs.resp.id.sid = 7)

C13_Witness ==
    /\ HandledQuery({1})
    /\ obs.req.id.cls = 7 /\ obs.req.id.sid = 7
    /\ obs.built
    /\ obs.resp.id = [type |-> 1, query |-> 0, cls |-> 1, sid |-> 2,
                      endpoint |-> 1]
    /\ Len(obs.sent) = 1 /\ obs.sent[1].frame = obs.resp

(* the request handling, start-up read or telemetry build of the last      *)
(* invocation ended with a non-zero result                                 *)
WorkFailed ==
    /\ obs.op = "process"
    /\ obs.work \in {"rx", "startup", "telemetry"}
    /\ obs.work_ret # 0

ErrorResponse == config[8][1] % 2

(* C14: when the request handling or the telemetry build of an invocation  *)
(* yields a non-zero result, driver.send is not called if                  *)
(* config.error_response is 0 and is called exactly once if it is 1.       *)
C14_ErrorGate ==
    WorkFailed =>
        IF ErrorResponse = 0
        THEN Len(obs.sent) = 0
        ELSE Len(obs.sent) = 1

C14_Witness ==
    /\ WorkFailed
    /\ obs.work = "telemetry"
    /\ obs.work_ret = -CANIOT_ENOTSUP
    /\ ErrorResponse = 0
    /\ obs.sent = <<>>
    /\ obs.ret = -CANIOT_ENOTSUP

(* the frame is a query carrying the device's address or the broadcast one *)
TargetsDevice(id) ==
    /\ id.query = 1
    /\ \/ id.cls = DeviceClass /\ id.sid = DeviceSubId
       \/ id.cls = 7 /\ id.sid = 7

OtherCounters == {24, 28, 32, 36, 40, 48, 52}

(* C15: with frame filtering, an invocation that receives a frame not      *)
(* targeting the device returns -EUNEXPECTED, increments received.ignored  *)
(* by one, changes no other counter, invokes no handler and sends nothing, *)
(* whatever config.error_response is.                                      *)
C15_FilterDrops ==
    [][(/\ obs'.op = "process"
        /\ build.filter
        /\ obs'.recv_ret = 0
        /\ ~TargetsDevice(obs'.req.id)) =>
          /\ obs'.ret = -CANIOT_EUNEXPECTED
          /\ system'[44][1] = system[44][1] + 1
          /\ \A off \in OtherCounters : system'[off] = system[off]
          /\ \A i \in 1 .. Len(obs'.calls) : obs'.calls[i] \notin RequestHandlers
          /\ obs'.sent = <<>>]_vars

C15_Witness ==
    /\ obs.op = "process"
    /\ build.filter
    /\ obs.recv_ret = 0
    /\ obs.req.id.cls = 1 /\ obs.req.id.sid = 3 /\ obs.req.id.query = 1
    /\ obs.ret = -CANIOT_EUNEXPECTED
    /\ system[44][1] = 1
    /\ system[24][1] = 0
    /\ ErrorResponse = 1
    /\ obs.sent = <<>>

(* the frame is the read_attribute response for key *)
IsReadResponse(frame, key) ==
    /\ frame.id.type = 3
    /\ frame.id.query = 0
    /\ frame.len = 6
    /\ frame.buf[1] = key % 256
    /\ frame.buf[2] = key \div 256

(* C16: after caniot_app_init with a start-up list of N keys, the list     *)
(* [0x0000, 0x0003] included, each of the first N invocations with empty   *)
(* RX sends the read_attribute response for the next key of the list, in   *)
(* list order, and invocation N+1 synthesises no start-up read.  (Every    *)
(* operation of SpecStartup is an invocation with empty RX, so steps       *)
(* numbers the invocations.)                                               *)
C16_StartupPublication ==
    (obs.op = "process" /\ build.startup) =>
        IF steps <= Len(startup.attrs)
        THEN /\ obs.work = "startup"
             /\ Len(obs.sent) = 1
             /\ IsReadResponse(obs.sent[1].frame, startup.attrs[steps])
        ELSE /\ obs.work # "startup"
             /\ flags.startup_attrs_sent

(* the read_attribute response of the device to the last request *)
OwnResponseId ==
    [type |-> 3, query |-> 0, cls |-> DeviceClass, sid |-> DeviceSubId,
     endpoint |-> obs.req.id.endpoint]

IdentificationVersion == identification[2][1]

VersionPayload(key) ==
    <<key % 256, key \div 256, IdentificationVersion % 256,
      IdentificationVersion \div 256, 0, 0, 0, 0>>

(* C17 as stated: a read_attribute query with key 0x0001 is answered with  *)
(* a read_attribute response of len 6 holding the key and the 16-bit       *)
(* identification.version, zero-extended, little-endian.                   *)
C17_VersionAtKey1 ==
    (WellFormedRead /\ ReqKey = 1) =>
        /\ obs.rx_ret = 0
        /\ obs.rx_resp.id = OwnResponseId
        /\ obs.rx_resp.len = 6
        /\ obs.rx_resp.buf = VersionPayload(1)

(* C17 amended: identification.version is named by key 0x0010; a query     *)
(* with that key is answered with the read_attribute response of len 6     *)
(* holding the key and the version, and a query with key 0x0001, part 1 of *)
(* the one-byte did attribute, fails with -EKEYPART.                       *)
C17_VersionAtKey16 ==
    /\ (WellFormedRead /\ ReqKey = 16) =>
          /\ obs.rx_ret = 0
          /\ obs.rx_resp.id = OwnResponseId
          /\ obs.rx_resp.len = 6
          /\ obs.rx_resp.buf = VersionPayload(16)
    /\ (WellFormedRead /\ ReqKey = 1) =>
          /\ obs.rx_ret = -CANIOT_EKEYPART
          /\ caniot_is_error_frame(obs.rx_resp.id)

C17_Witness ==
    /\ WellFormedRead
    /\ ReqKey = 16
    /\ obs.rx_ret = 0
    /\ obs.rx_resp.len = 6
    /\ obs.rx_resp.buf = <<16, 0, 2, 1, 0, 0, 0, 0>>
    /\ Len(obs.sent) = 1 /\ obs.sent[1].frame = obs.rx_resp

SchemaEntry(key) ==
    attr_sections[((key \div 4096) % 16) + 1].array[((key \div 16) % 256) + 1]

ReqValue ==
    obs.req.buf[3] + 256 * obs.req.buf[4] + 65536 * obs.req.buf[5]

(* the value as an attribute of size bytes holds it *)
Narrowed(val, size) == IF size >= 4 THEN val ELSE val % (2 ^ (8 * size))

(* the last request was a well-formed write to a writable configuration    *)
(* attribute of the device's class                                         *)
ConfigWrite ==
    /\ WellFormedWrite
    /\ ReqKey \div 4096 = 2
    /\ ExpectedResolve(ReqKey) = 0
    /\ (SchemaOption(ReqKey) \div 2) % 2 = 1
    /\ (~IsClassRestricted(ReqKey) \/ SchemaClass(ReqKey) = DeviceClass)

Count(seq, x) == Cardinality({i \in 1 .. Len(seq) : seq[i] = x})

(* C18: a well-formed write_attribute request to a writable configuration  *)
(* attribute stores the value, narrowed to the attribute's width, in       *)
(* configuration memory and invokes a registered config.on_write exactly   *)
(* once; it fails only with the error of a callback, and otherwise is      *)
(* answered with a read_attribute response of len 6 holding the key and    *)
(* the value read back, zero-extended.                                     *)
C18_ConfigWrite ==
    ConfigWrite =>
        LET e == SchemaEntry(ReqKey)
            off == e.offset + 4 * (ReqKey % 16)
            stored == Narrowed(ReqValue, e.size)
        IN /\ ReadMem(config, caniot_device_config_layout, off, 4) = stored
           /\ Count(obs.calls, "on_write") = (IF api.on_write THEN 1 ELSE 0)
           /\ obs.rx_ret \in {0, DriverError}
           /\ obs.rx_ret = 0 =>
                 /\ obs.rx_resp.id = OwnResponseId
                 /\ obs.rx_resp.len = 6
                 /\ obs.rx_resp.buf =
                       <<ReqKey % 256, ReqKey \div 256, stored % 256,
                         (stored \div 256) % 256, (stored \div 65536) % 256,
                         stored \div 16777216, 0, 0>>

C18_Witness ==
    /\ ConfigWrite
    /\ api.on_write
    /\ ReqKey = 8192
    /\ config[0][1] = 500
    /\ obs.calls = <<"on_write">>
    /\ obs.rx_ret = 0
    /\ obs.rx_resp.buf = <<0, 32, 244, 1, 0, 0, 0, 0>>

(* a value wider than the attribute is stored and read back narrowed *)
C18_WitnessNarrow ==
    /\ ConfigWrite
    /\ ReqKey = 8240
    /\ ReqValue = 70000
    /\ config[6][1] = 4464
    /\ obs.rx_ret = 0
    /\ obs.rx_resp.buf = <<48, 32, 112, 17, 0, 0, 0, 0>>

CustomCalls ==
    {i \in 1 .. Len(obs.calls) :
        obs.calls[i] \in {"custom_attr.read", "custom_attr.write"}}

BothCustomRegistered == api.custom_read /\ api.custom_write

(* C19: a well-formed attribute request is delegated to the custom_attr    *)
(* callbacks iff the key does not resolve and both callbacks are           *)
(* registered (a read to custom_attr.read, a write to custom_attr.write    *)
(* first); for a resolvable key they are never invoked; with only one of   *)
(* them registered the resolver's error is returned.                       *)
C19_CustomDelegation ==
    (WellFormedRead \/ WellFormedWrite) =>
        /\ CustomCalls # {} <=>
              (ExpectedResolve(ReqKey) # 0 /\ BothCustomRegistered)
        /\ CustomCalls # {} =>
              obs.calls[1] = (IF obs.req.id.type = 2
                              THEN "custom_attr.write"
                              ELSE "custom_attr.read")
        /\ (ExpectedResolve(ReqKey) # 0 /\ ~BothCustomRegistered) =>
              obs.rx_ret = ExpectedResolve(ReqKey)

C19_Witness ==
    /\ WellFormedWrite
    /\ BothCustomRegistered
    /\ ReqKey = 12288
    /\ obs.calls = <<"custom_attr.write", "custom_attr.read">>
    /\ obs.rx_ret = 0
    /\ obs.rx_resp.buf = <<0, 48, 77, 0, 0, 0, 0, 0>>

(* only custom_attr.read registered: the read of an unresolvable key fails *)
(* with the resolver's error                                               *)
C19_WitnessOneCallback ==
    /\ WellFormedRead
    /\ api.custom_read /\ ~api.custom_write
    /\ ReqKey = 12288
    /\ obs.calls = <<>>
    /\ obs.rx_ret = -CANIOT_EKEYSECTION

StartupPending == build.startup /\ ~flags.startup_attrs_sent

PeriodicEnabled == (config[8][1] \div 16) % 2 = 1

(* milliseconds on the driver clock since _last_telemetry_ms *)
ElapsedMs == clock.sec * 1000 + clock.msec - system[20][1]

(* the configuration refresh of the call failed: on_read is registered and *)
(* the configuration is still dirty                                        *)
RefreshFailed == api.on_read /\ flags.config_dirty

(* period - elapsed_ms, or 0 once the period has elapsed *)
RemainingOfPeriod ==
    IF ElapsedMs < 0 \/ ElapsedMs >= config[0][1]
    THEN 0
    ELSE config[0][1] - ElapsedMs

(* C20 as stated: caniot_device_time_until_process returns 0 if start-up   *)
(* attributes are pending or the period has elapsed, the maximum value if  *)
(* periodic telemetry is disabled, period - elapsed_ms otherwise, and no   *)
(* other value.                                                            *)
C20_TimeUntilProcess ==
    obs.op = "time_until_process" =>
        obs.ret = IF StartupPending THEN 0
                  ELSE IF ~PeriodicEnabled THEN -1
                  ELSE RemainingOfPeriod

(* C20 amended: it returns 0 if start-up attributes are pending; else 1000 *)
(* if the configuration refresh fails; else the maximum value if periodic  *)
(* telemetry is disabled; else 0 if the period has elapsed and             *)
(* period - elapsed_ms if not; and no other value.                         *)
C20_TimeUntilProcessOrDefault ==
    obs.op = "time_until_process" =>
        obs.ret = IF StartupPending THEN 0
                  ELSE IF RefreshFailed THEN 1000
                  ELSE IF ~PeriodicEnabled THEN -1
                  ELSE RemainingOfPeriod

C20_Witness ==
    /\ obs.op = "time_until_process"
    /\ ~StartupPending
    /\ ~RefreshFailed
    /\ PeriodicEnabled
    /\ config[0][1] = 1000
    /\ ElapsedMs = 400
    /\ obs.ret = 600

(* the frames handed to driver.send are error frames of type command on    *)
(* endpoint ep                                                             *)
SentCommandErrorOn(ep) ==
    \A i \in 1 .. Len(obs.sent) :
        /\ obs.sent[i].frame.id.query = 0
        /\ obs.sent[i].frame.id.type = 0
        /\ obs.sent[i].frame.id.endpoint = ep

(* C21: without a command handler a command request yields -EHANDLERC, and *)
(* without a telemetry handler a telemetry request or a triggered          *)
(* telemetry yields -EHANDLERT; any frame sent for that failure is an      *)
(* error frame (query=response, type=command) on the requested endpoint,   *)
(* never a frame of type telemetry.                                        *)
C21_HandlerMissing ==
    /\ (HandledQuery({0}) /\ ~api.command_handler) =>
          /\ obs.work_ret = -CANIOT_EHANDLERC
          /\ SentCommandErrorOn(obs.req.id.endpoint)
    /\ (HandledQuery({1}) /\ ~api.telemetry_handler) =>
          /\ obs.work_ret = -CANIOT_EHANDLERT
          /\ SentCommandErrorOn(obs.req.id.endpoint)
    /\ (obs.op = "process" /\ obs.work = "telemetry" /\
        ~api.telemetry_handler) =>
          /\ obs.work_ret = -CANIOT_EHANDLERT
          /\ \A i \in 1 .. Len(obs.sent) :
                /\ obs.sent[i].frame.id.type # 1
                /\ caniot_is_error_frame(obs.sent[i].frame.id)

(* C22: caniot_device_targeted and caniot_device_targeted_class return     *)
(* false for every frame with ext = true and for every frame with          *)
(* rtr = true, for all did, cls and id.                                    *)
C22_ExtRtrNeverTargeted ==
    (codec.op \in {"targeted", "targeted_class"} /\ (codec.ext \/ codec.rtr))
        => ~codec.target

(* the endpoints whose bit is set in a request_telemetry_ep value *)
RequestedEps(set) == {e \in 0 .. 3 : EpBit(set, e)}

(* board_control (3) > ep2 (2) > ep1 (1) > app (0) *)
TopPriority(eps) == CHOOSE e \in eps : \A f \in eps : f <= e

(* C23: when recv reports EAGAIN, no start-up attribute is pending and     *)
(* several bits of request_telemetry_ep are set, the invocation builds     *)
(* exactly one telemetry frame, for the requested endpoint of highest      *)
(* priority (board_control > ep2 > ep1 > app), and the bits of all other   *)
(* requested endpoints remain set after it.                                *)
C23_HighestPriorityFirst ==
    [][(/\ obs'.op = "process"
        /\ obs'.recv_ret = -CANIOT_EAGAIN
        /\ ~(build.startup /\ ~flags.startup_attrs_sent)
        /\ Cardinality(RequestedEps(obs'.chk.eps_after)) >= 2) =>
          LET eps == RequestedEps(obs'.chk.eps_after)
              top == TopPriority(eps)
          IN /\ obs'.work = "telemetry"
             /\ obs'.built
             /\ obs'.resp.id.type = 1 /\ obs'.resp.id.query = 0
             /\ obs'.resp.id.endpoint = top
             /\ Count(obs'.calls, "telemetry_handler") =
                   (IF api.telemetry_handler THEN 1 ELSE 0)
             /\ Len(obs'.sent) <= 1
             /\ \A i \in 1 .. Len(obs'.sent) : obs'.sent[i].frame = obs'.resp
             /\ \A e \in eps \ {top} : EpBit(flags'.request_telemetry_ep, e)
       ]_vars

C23_Witness ==
    /\ obs.op = "process"
    /\ obs.recv_ret = -CANIOT_EAGAIN
    /\ obs.work = "telemetry"
    /\ RequestedEps(obs.chk.eps_after) = {1, 3}
    /\ obs.resp.id.endpoint = 3
    /\ Len(obs.sent) = 1 /\ obs.sent[1].ret = 0
    /\ RequestedEps(flags.request_telemetry_ep) = {1}

(* C24: each invocation calls driver.recv exactly once and driver.send at  *)
(* most once, and the response to a received frame, if one is sent, is     *)
(* handed to send in the invocation that received the frame, before any    *)
(* further recv: responses leave in the order recv returned the requests.  *)
C24_OneRecvOneSend ==
    obs.op = "process" =>
        /\ obs.nrecv = 1
        /\ Len(obs.sent) <= 1
        /\ obs.work = "rx" =>
              \A i \in 1 .. Len(obs.sent) :
                 /\ obs.sent[i].frame = obs.rx_resp
                 /\ obs.sent[i].frame.id.query = 0
                 /\ obs.sent[i].frame.id.endpoint = obs.req.id.endpoint
        /\ obs.recv_ret = 0 => obs.work \in {"rx", "none"}

C24_Witness ==
    /\ steps = 2
    /\ HandledQuery({1})
    /\ obs.req.id.endpoint = 2
    /\ obs.nrecv = 1
    /\ Len(obs.sent) = 1
    /\ obs.sent[1].frame.id.type = 1
    /\ obs.sent[1].frame.id.endpoint = 2
    /\ system[24][1] = 2
    /\ system[48][1] = 2

(* C25: dispatching a BLC system command performs a single indirect call   *)
(* to api.blc_sys_cmd_handler and returns its result: call_blc_sys_cmd_cb  *)
(* has one activation per dispatched command, never exhausts the stack,    *)
(* and a command frame carrying a system command is handled to the end     *)
(* with the handler called.                                                *)
C25_BlcSingleCall ==
    (obs.op = "blc" /\ obs.dispatch /\ obs.todo # <<>>) =>
        /\ obs.depth <= 1
        /\ obs.pc # "stack_overflow"
        /\ obs.pc = "returned" =>
              Count(obs.calls, "blc_sys_cmd_handler") = Len(obs.todo)

(* the 32-bit value of a write_attribute request, bytes [2..6) *)
ReqValue32 ==
    obs.req.buf[3] + 256 * obs.req.buf[4] + 65536 * obs.req.buf[5] +
    16777216 * obs.req.buf[6]

(* the last invocation handled a well-formed write to system.time *)
TimeWrite == WellFormedWrite /\ ReqKey = 4112 /\ obs.rx_ret = 0

(* milliseconds on the driver clock *)
ClockMs == clock.sec * 1000 + clock.msec

(* C26: a successful write of T to system.time (key 0x1010) calls          *)
(* driver.set_time(T) once, sets system.time = T and uptime_synced =       *)
(* T - start_time, leaves time - start_time unchanged, and preserves the   *)
(* periodic deadline: now_ms - _last_telemetry_ms is the same immediately  *)
(* before and immediately after the write, whatever millisecond value the  *)
(* clock reports after set_time.                                           *)
C26_TimeWrite ==
    [][TimeWrite' =>
          /\ Count(obs'.calls, "set_time") = 1
          /\ clock'.sec = ReqValue32'
          /\ system'[4][1] = ReqValue32'
          /\ system'[0][1] = ReqValue32' - system'[12][1]
          /\ system'[4][1] - system'[12][1] = obs'.chk.time - system[12][1]
          /\ ClockMs' - system'[20][1] = obs'.chk.sample_ms - system[20][1]
       ]_vars

(* the last invocation handled a configuration write whose on_write        *)
(* callback ran                                                            *)
ConfigWritten == ConfigWrite /\ Count(obs.calls, "on_write") = 1

(* C27: after a configuration write whose on_write callback changes the    *)
(* time base, start_time and last_telemetry are each shifted by the delta  *)
(* in seconds between the clock samples before and after the callback, so *)
(* last_telemetry never exceeds the current time and the periodic          *)
(* deadline is preserved.                                                  *)
C27_ConfigWriteShift ==
    [][ConfigWritten' =>
          LET delta_s == clock'.sec - obs'.chk.time
          IN /\ system'[12][1] = system[12][1] + delta_s
             /\ system'[16][1] = system[16][1] + delta_s
             /\ system'[16][1] <= clock'.sec
             /\ ClockMs' - system'[20][1] =
                   obs'.chk.sample_ms - system[20][1]
       ]_vars

(* the last invocation handled a read of a configuration attribute of the  *)
(* device's class                                                          *)
ConfigRead ==
    /\ WellFormedRead
    /\ ReqKey \div 4096 = 2
    /\ ExpectedResolve(ReqKey) = 0
    /\ SchemaOption(ReqKey) % 2 = 1
    /\ (~IsClassRestricted(ReqKey) \/ SchemaClass(ReqKey) = DeviceClass)

(* C28: config.on_read is invoked only while config_dirty is set;          *)
(* config_dirty is cleared only by a successful on_read and set only by    *)
(* init, deinit and caniot_device_config_mark_dirty; when on_read fails, a *)
(* configuration attribute read returns that error without copying any     *)
(* value and config_dirty stays set, so with on_read registered no         *)
(* configuration read succeeds while config_dirty is set.                  *)
C28_DirtyProtocol ==
    /\ [](obs.op = "init" => flags.config_dirty)
    /\ [][/\ Count(obs'.calls, "on_read") > 0 =>
                flags.config_dirty /\ api.on_read
          /\ (flags.config_dirty /\ ~flags'.config_dirty) =>
                obs'.read_ok /\ Count(obs'.calls, "on_read") > 0
          /\ (~flags.config_dirty /\ flags'.config_dirty) =>
                obs'.op \in {"mark_dirty", "deinit"}
          /\ (ConfigRead' /\ api.on_read /\ flags'.config_dirty) =>
                /\ obs'.rx_ret = DriverError
                /\ caniot_is_error_frame(obs'.rx_resp.id)
                /\ obs'.rx_resp.buf = <<251, 255, 255, 255,
                                        ReqKey' % 256, ReqKey' \div 256, 0, 0>>
          /\ (ConfigRead' /\ api.on_read /\ obs'.rx_ret = 0) =>
                ~flags'.config_dirty
         ]_vars

C28_Witness ==
    /\ ConfigRead
    /\ ReqKey = 8192
    /\ api.on_read
    /\ flags.config_dirty
    /\ obs.calls = <<"on_read", "on_read", "on_read">>
    /\ obs.rx_ret = DriverError
    /\ ~obs.read_ok

(* the configuration marked dirty again is refreshed by the next read *)
C28_WitnessRefresh ==
    /\ steps = 3
    /\ ConfigRead
    /\ api.on_read
    /\ ~flags.config_dirty
    /\ obs.calls = <<"on_read", "on_read">>
    /\ obs.read_ok
    /\ obs.rx_ret = 0

(* the offset in system memory of the counter of a frame type *)
TypeCounter(type) ==
    CASE type = 0 -> 36
      [] type = 1 -> 40
      [] type = 2 -> 32
      [] OTHER -> 28

TypeCounters == {TypeCounter(t) : t \in 0 .. 3}

ReceivedSum ==
    system[36][1] + system[40][1] + system[32][1] + system[28][1]

(* every dispatched query adds one to received.total and to the counter of *)
(* its type alone, and the total is the sum of the four; on the 32-bit     *)
(* two's-complement values, whose sum stays far from 2^31 here, equality   *)
(* is congruence modulo 2^32                                               *)
CountedOnce ==
    /\ [][HandledQuery({0, 1, 2, 3})' =>
            /\ system'[24][1] = system[24][1] + 1
            /\ system'[TypeCounter(obs'.req.id.type)][1] =
                  system[TypeCounter(obs'.req.id.type)][1] + 1
            /\ \A off \in TypeCounters \ {TypeCounter(obs'.req.id.type)} :
                  system'[off] = system[off]
         ]_vars
    /\ [](system[24][1] = ReceivedSum)

(* C29 as stated: every dispatched query increments received.total and     *)
(* exactly one of the four type counters by one, whether or not handling   *)
(* succeeds, received.total equals their sum modulo 2^32, and no received  *)
(* counter ever decreases.                                                 *)
C29_CountersNeverDecrease ==
    /\ CountedOnce
    /\ [][\A off \in ReceivedCounters :
             U32Ge(system'[off][1], system[off][1])]_vars

(* C29, amended: every dispatched query increments received.total and      *)
(* exactly one of the four type counters by one, whether or not handling   *)
(* succeeds, received.total equals their sum modulo 2^32, and a received   *)
(* counter only changes by one increment modulo 2^32 per invocation: it    *)
(* decreases only when it wraps from 2^32 - 1 to 0.                        *)
C29_CountersWrap ==
    /\ CountedOnce
    /\ [][\A off \in ReceivedCounters :
             \/ system'[off] = system[off]
             \/ system'[off][1] = system[off][1] + 1
             ]_vars
    /\ [][\A off \in ReceivedCounters :
             U32Ge(system'[off][1], system[off][1]) \/
             (system[off][1] = UINT32_MAX /\ system'[off][1] = 0)]_vars

(* a refused command makes received.command and received.total wrap *)
C29_Witness ==
    /\ HandledQuery({0})
    /\ obs.rx_ret = HandlerError
    /\ system[36][1] = 0
    /\ system[24][1] = 0
    /\ steps = 1

(* two requests counted from zero, the second one refused *)
C29_WitnessCounted ==
    /\ HandledQuery({2})
    /\ obs.rx_ret = -CANIOT_EROATTR
    /\ system[24][1] = 2
    /\ system[32][1] = 1
    /\ system[28][1] = 1

(* C30: an invocation in which recv reports EAGAIN (start-up attribute     *)
(* publication or triggered telemetry) leaves every received.* counter     *)
(* unchanged.                                                              *)
C30_EagainNotCounted ==
    [][(obs'.op = "process" /\ obs'.recv_ret = -CANIOT_EAGAIN) =>
          \A off \in ReceivedCounters : system'[off] = system[off]]_vars

(* a start-up attribute published after a request had been counted *)
C30_Witness ==
    /\ obs.op = "process"
    /\ obs.recv_ret = -CANIOT_EAGAIN
    /\ obs.work = "startup"
    /\ Len(obs.sent) = 1
    /\ obs.sent[1].frame.id.type = CANIOT_FRAME_TYPE_READ_ATTRIBUTE
    /\ system[24][1] = 1
    /\ system[28][1] = 0

(* a triggered telemetry sent after a request had been counted *)
C30_WitnessTelemetry ==
    /\ obs.op = "process"
    /\ obs.recv_ret = -CANIOT_EAGAIN
    /\ obs.work = "telemetry"
    /\ Len(obs.sent) = 1
    /\ system[24][1] = 1
    /\ system[40][1] = 1

(* the frame recv delivered is addressed to the device *)
ReceivedForDevice ==
    /\ obs.op = "process"
    /\ obs.recv_ret = 0
    /\ (build.filter =>
          caniot_device_is_target(caniot_device_get_id(identification),
                                  obs.req.id))

(* a received frame is handled whatever else is pending *)
RxFirst ==
    [][ReceivedForDevice' => obs'.work = "rx"]_vars

(* C31: a received frame is always handled in preference to start-up       *)
(* publication and triggered telemetry, and while start-up attributes are  *)
(* pending an invocation with empty RX builds no triggered telemetry and   *)
(* keeps every pending bit of request_telemetry_ep.                        *)
C31_WorkOrder ==
    /\ RxFirst
    /\ [][(/\ obs'.op = "process"
           /\ obs'.recv_ret = -CANIOT_EAGAIN
           /\ StartupPending /\ startup.cursor # 0) =>
             /\ obs'.work = "startup"
             /\ Count(obs'.calls, "telemetry_handler") = 0
             /\ RequestedEps(flags.request_telemetry_ep) \subseteq
                   RequestedEps(flags'.request_telemetry_ep)
         ]_vars

(* C32: the acceptance mask 0x1FC is the packed identifier (type 0,        *)
(* query 1, class 7, sub-id 7, endpoint 0), and for every did with both    *)
(* fields below 7 and every 11-bit identifier,                             *)
(* caniot_device_targeted(did, false, false, id) equals                    *)
(* caniot_device_is_target(did, caniot_canid_to_id(id)).                   *)
C32_FilterMatchesIsTarget ==
    /\ caniot_device_get_mask =
          caniot_id_to_canid([type |-> 0, query |-> 1, cls |-> 7, sid |-> 7,
                              endpoint |-> 0])
    /\ (/\ codec.op = "targeted_std"
        /\ CANIOT_DID_CLS(codec.did) < 7
        /\ CANIOT_DID_SID(codec.did) < 7) =>
          codec.target =
             caniot_device_is_target(codec.did,
                                     caniot_canid_to_id(codec.canid))

(* a read_attribute query for device (5, 2) on endpoint 3 *)
C32_Witness ==
    /\ codec.op = "targeted_std"
    /\ codec.did = 42
    /\ codec.id = [type |-> 3, query |-> 1, cls |-> 5, sid |-> 2,
                   endpoint |-> 3]
    /\ codec.target

(* a response of the same device is not targeted *)
C32_WitnessResponse ==
    /\ codec.op = "targeted_std"
    /\ codec.did = 42
    /\ codec.id = [type |-> 3, query |-> 0, cls |-> 5, sid |-> 2,
                   endpoint |-> 3]
    /\ ~codec.target

(* the equality for every did, the broadcast fields included *)
TargetedIsTargetAll ==
    codec.op = "targeted_std" =>
        codec.target =
           caniot_device_is_target(codec.did, caniot_canid_to_id(codec.canid))

(* C33: every frame caniot_device_process passes to driver.send was built  *)
(* during that invocation by the dispatcher, the error wrapper or the      *)
(* telemetry builder; when a start-up attribute read fails no frame that   *)
(* was never built is sent.                                                *)
C33_SentFramesAreBuilt ==
    (obs.op = "process" /\ Len(obs.sent) > 0) => obs.built

(* the same for invocations that handle a received frame or a triggered    *)
(* telemetry                                                               *)
SentFramesAreBuiltOutsideStartup ==
    (obs.op = "process" /\ Len(obs.sent) > 0 /\ obs.work # "startup") =>
        obs.built

(* the last invocation handled a well-formed write of a configuration      *)
(* attribute restricted to a class other than the device's                 *)
ForeignClassConfigWrite ==
    /\ WellFormedWrite
    /\ ReqKey \div 4096 = 2
    /\ IsClassRestricted(ReqKey)
    /\ SchemaClass(ReqKey) # DeviceClass

(* C34: a write_attribute request for a class-restricted configuration     *)
(* attribute sent to a device of a different class leaves configuration    *)
(* memory unchanged and does not invoke config.on_write.                   *)
C34_ForeignClassWriteNoEffect ==
    [][(ForeignClassConfigWrite' /\ Count(obs'.calls, "on_read") = 0) =>
          /\ config' = config
          /\ Count(obs'.calls, "on_write") = 0]_vars

(* the request is answered with an error whatever the write did *)
ForeignClassWriteRefused ==
    ForeignClassConfigWrite => obs.rx_ret # 0

(* C35: after any sequence of invocations since init                       *)
(* sent.telemetry <= sent.total: sent.telemetry counts only telemetry      *)
(* frames that driver.send accepted, also when send fails or emission is   *)
(* suppressed.                                                             *)
C35_TelemetryWithinTotal ==
    system[52][1] <= system[48][1]

(* driver.send was called in the last invocation and returned an error *)
SendFailed ==
    /\ obs.op = "process"
    /\ Len(obs.sent) = 1
    /\ obs.sent[1].ret # 0

(* C36: when driver.send returns non-zero, caniot_device_process returns   *)
(* that error and leaves request_telemetry_ep (as the periodic check of    *)
(* the invocation set it), _last_telemetry_ms, last_telemetry and          *)
(* sent.total unchanged, so a triggered telemetry whose send failed is     *)
(* still pending at the next invocation.                                   *)
C36_SendFailureKeepsState ==
    [][SendFailed' =>
          /\ obs'.ret = obs'.sent[1].ret
          /\ flags'.request_telemetry_ep = obs'.chk.eps_after
          /\ system'[20] = system[20]
          /\ system'[16] = system[16]
          /\ system'[48] = system[48]
          /\ obs'.work = "telemetry" =>
                EpBit(flags'.request_telemetry_ep,
                      obs'.sent[1].frame.id.endpoint)
         ]_vars

(* the board-control telemetry requested by the application was refused by *)
(* send and is still requested                                             *)
C36_Witness ==
    /\ SendFailed
    /\ obs.ret = DriverError
    /\ obs.work = "telemetry"
    /\ obs.sent[1].frame.id.endpoint = CANIOT_ENDPOINT_BOARD_CONTROL
    /\ is_telemetry_response(obs.sent[1].frame.id)
    /\ EpBit(flags.request_telemetry_ep, CANIOT_ENDPOINT_BOARD_CONTROL)
    /\ system[48][1] = 0

(* endpoint e is requested and start-up publication is complete *)
TelemetryPending(e) ==
    EpBit(flags.request_telemetry_ep, e) /\ flags.startup_attrs_sent

(* the last invocation sent the telemetry of endpoint e and cleared its bit *)
TelemetryServed(e) ==
    /\ obs.op = "process"
    /\ SentTelemetryOn(e)
    /\ ~EpBit(flags.request_telemetry_ep, e)

(* C37: once bit e of request_telemetry_ep is set and start-up publication *)
(* is complete, if caniot_device_process keeps being invoked with recv     *)
(* reporting EAGAIN and the telemetry handler and send always succeeding,  *)
(* eventually a telemetry frame for endpoint e is sent and bit e is        *)
(* cleared, for every endpoint, period and periodic endpoint.              *)
C37_TriggeredTelemetryLive ==
    \A e \in 0 .. 3 : TelemetryPending(e) ~> TelemetryServed(e)

(* the same while no telemetry of a higher priority is due at every        *)
(* invocation                                                              *)
LiveUnlessOvertaken ==
    \A e \in 0 .. 3 :
        (TelemetryPending(e) /\
         ~(PeriodicEnabled /\ config[0][1] = 0 /\
           (config[8][1] \div 4) % 4 > e))
            ~> TelemetryServed(e)

(* the cursor moves to the next key in every invocation with empty RX that *)
(* finds a start-up attribute pending                                      *)
CursorAdvances ==
    [][(/\ obs'.op = "process"
        /\ obs'.recv_ret = -CANIOT_EAGAIN
        /\ StartupPending /\ startup.cursor # 0) =>
          startup'.cursor = startup.cursor + 1]_vars

(* C38: if caniot_device_process keeps being invoked with empty RX, the    *)
(* cursor advances on every such invocation and startup_attrs_sent becomes *)
(* true after finitely many invocations, even when reading a listed key    *)
(* fails (a failing config.on_read included), after which                  *)
(* caniot_device_time_until_process returns 0 only for a periodic          *)
(* telemetry that is due.                                                  *)
C38_StartupCompletes ==
    /\ CursorAdvances
    /\ <>flags.startup_attrs_sent
    /\ []((/\ obs.op = "time_until_process"
           /\ flags.startup_attrs_sent
           /\ obs.ret = 0) => PeriodicEnabled)

(* the publication completes when on_read does not fail for ever *)
CompletesUnlessReadFailsForEver ==
    <>(flags.startup_attrs_sent \/ [](~obs.read_ok /\ flags.config_dirty))

(* an ignored attribute error moves the cursor *)
CursorAdvancesOnIgnoredError ==
    [][(/\ obs'.op = "process"
        /\ obs'.recv_ret = -CANIOT_EAGAIN
        /\ StartupPending /\ startup.cursor # 0
        /\ obs'.work_ret \in IgnoredStartupErrors \cup {0}) =>
          startup'.cursor = startup.cursor + 1]_vars


-----------------------------------------------------------------------------
(* Part descriptors *)

(* bytes from the start of the attribute to the end of the descriptor *)
DescriptorEnd(ref, attr) == (ref.offset - attr.offset) + ref.size

(* the attribute a resolvable key names *)
KeyAttr(key) == attr_get(key, attr_get_section(key))

(* C39, for every size: for every attribute size s in 1..255 and every    *)
(* part p with 4*p < s the descriptor of attr_resolve stays within the     *)
(* attribute, (final_offset - attribute.offset) + size <= s.               *)
C39_DescriptorWithinEverySize ==
    (resolved.op = "part" /\ resolved.ret = 0)
        => DescriptorEnd(resolved.ref, resolved.attr) <= resolved.attr.size

(* C39: a part p of an attribute of s bytes resolves exactly when         *)
(* 4*p < s, to the 4*p-th byte of the attribute and min(s, 4) bytes; the   *)
(* descriptor stays within the attribute when s <= 4 or s is a multiple    *)
(* of 4, as for every attribute of the schema, and within the last 4-byte  *)
(* part otherwise.                                                         *)
C39_DescriptorWithinAttribute ==
    /\ resolved.op = "part" =>
          LET s == resolved.attr.size
              p == ATTR_KEY_PART_GET(resolved.key)
          IN /\ (resolved.ret = 0) = (4 * p < s)
             /\ resolved.ret # 0 => resolved.ret = -CANIOT_EKEYPART
             /\ resolved.ret = 0 =>
                   /\ resolved.ref.offset - resolved.attr.offset = 4 * p
                   /\ resolved.ref.size = MIN(s, 4)
                   /\ (s <= 4 \/ s % 4 = 0) =>
                         DescriptorEnd(resolved.ref, resolved.attr) <= s
                   /\ DescriptorEnd(resolved.ref, resolved.attr)
                         <= 4 * ((s + 3) \div 4)
    /\ (resolved.op = "resolve" /\ resolved.ret = 0) =>
          /\ resolved.ref =
                attr_resolve_found(KeyAttr(resolved.key),
                                   attr_get_section(resolved.key),
                                   resolved.key).ref
          /\ DescriptorEnd(resolved.ref, KeyAttr(resolved.key))
                <= KeyAttr(resolved.key).size

(* the last part of a 16-byte attribute *)
C39_Witness ==
    /\ resolved.op = "part"
    /\ resolved.attr.size = 16
    /\ ATTR_KEY_PART_GET(resolved.key) = 3
    /\ resolved.ret = 0
    /\ DescriptorEnd(resolved.ref, resolved.attr) = 16

(* the second part of a 6-byte attribute ends at byte 8 *)
C39_WitnessOverrun ==
    /\ resolved.op = "part"
    /\ resolved.attr.size = 6
    /\ ATTR_KEY_PART_GET(resolved.key) = 1
    /\ resolved.ret = 0
    /\ DescriptorEnd(resolved.ref, resolved.attr) = 8

(* the last part of the 32-byte device name of the schema *)
C39_WitnessSchema ==
    /\ resolved.op = "resolve"
    /\ resolved.ret = 0
    /\ KeyAttr(resolved.key).size = 32
    /\ ATTR_KEY_PART_GET(resolved.key) = 7


-----------------------------------------------------------------------------
(* Query builders *)

(* query direction, endpoint and payload of a built command query *)
QueryCommandFields ==
    codec.op = "query_command" =>
        /\ codec.frame.id.query = CANIOT_QUERY
        /\ codec.frame.id.endpoint = codec.endpoint
        /\ codec.frame.len = MIN(codec.size, 8)
        /\ \A i \in 1 .. MIN(codec.size, 8) :
              codec.frame.buf[i] = codec.buf[i]

QueryTelemetryFields ==
    codec.op = "query_telemetry" =>
        /\ codec.frame.id.type = CANIOT_FRAME_TYPE_TELEMETRY
        /\ codec.frame.id.query = CANIOT_QUERY
        /\ codec.frame.id.endpoint = codec.endpoint
        /\ codec.frame.len = 0

(* C40: caniot_build_query_command produces a frame of type command with  *)
(* query direction 'query', the given endpoint and a payload equal to the  *)
(* first min(size, 8) bytes of the input; caniot_build_query_telemetry     *)
(* produces type telemetry with len 0.                                     *)
C40_QueryBuilders ==
    /\ codec.op = "query_command" =>
          codec.frame.id.type = CANIOT_FRAME_TYPE_COMMAND
    /\ QueryCommandFields
    /\ QueryTelemetryFields

(* every field of the claim but the type of the command query, which is   *)
(* telemetry; the builders leave class, sub-id and the bytes past len      *)
QueryBuildersButCommandType ==
    /\ QueryCommandFields
    /\ QueryTelemetryFields
    /\ codec.op = "query_command" =>
          /\ codec.frame.id.type = CANIOT_FRAME_TYPE_TELEMETRY
          /\ \A i \in MIN(codec.size, 8) + 1 .. 8 :
                codec.frame.buf[i] = codec.before.buf[i]
    /\ codec.op \in {"query_command", "query_telemetry"} =>
          /\ codec.frame.id.cls = codec.before.id.cls
          /\ codec.frame.id.sid = codec.before.id.sid

(* a command query of 10 bytes built in a cleared frame *)
QueryCommandTruncated ==
    /\ codec.op = "query_command"
    /\ codec.size = 10
    /\ codec.before = caniot_clear_frame
    /\ codec.frame.len = 8
    /\ codec.frame.id.type = CANIOT_FRAME_TYPE_TELEMETRY

====
